---- MODULE Spec2Model ----
(***************************************************************************)
(* Model of the invoice extraction backend                                 *)
(* (src/backend/services/gemini_service.py):                               *)
(*   - GeminiService._safe_json_parse : the multi-stage JSON repair parser *)
(*   - GeminiService._with_retry      : the retry / backoff controller     *)
(*   - GeminiService.extract_invoice_data : the two-request orchestration  *)
(*                                                                         *)
(* Text is a sequence of one-character strings.  A JSON value is a record  *)
(* [t |-> tag, v |-> payload]; objects are functions from keys (character  *)
(* sequences) to values, so that equality is the equality of Python dicts. *)
(***************************************************************************)
EXTENDS Integers, Sequences, FiniteSets, TLC

(***************************************************************************)
(* Characters and small text helpers                                       *)
(***************************************************************************)

\* str.strip() / regex \s on the characters the model uses
PyWs == {" ", "\n", "\t", "\r"}

\* json.decoder WHITESPACE
JsonWs == {" ", "\t", "\n", "\r"}

Digits == {"0", "1", "2", "3", "4", "5", "6", "7", "8", "9"}

\* s[a..b], empty when b < a
Slice(s, a, b) == IF b < a THEN << >> ELSE SubSeq(s, a, b)

\* does the literal lit stand in s at position i
MatchAt(s, i, lit) ==
  /\ i >= 1
  /\ i + Len(lit) - 1 <= Len(s)
  /\ \A k \in 1..Len(lit) : s[i + k - 1] = lit[k]

\* first position >= i whose character is not in cs (Len(s)+1 when none)
SkipSet(s, i, cs) ==
  CHOOSE j \in i..(Len(s) + 1) :
    /\ \A k \in i..(j - 1) : s[k] \in cs
    /\ (j = Len(s) + 1 \/ s[j] \notin cs)

\* str.strip()
Strip(s) ==
  LET a == SkipSet(s, 1, PyWs)
      b == IF a > Len(s) THEN 0
           ELSE CHOOSE j \in a..Len(s) :
                  /\ s[j] \notin PyWs
                  /\ \A k \in (j + 1)..Len(s) : s[k] \in PyWs
  IN Slice(s, a, b)

\* str.rstrip()
RStrip(s) ==
  LET b == IF \A k \in 1..Len(s) : s[k] \in PyWs THEN 0
           ELSE CHOOSE j \in 1..Len(s) :
                  /\ s[j] \notin PyWs
                  /\ \A k \in (j + 1)..Len(s) : s[k] \in PyWs
  IN Slice(s, 1, b)

\* str.rfind of a single character: 0-based index, -1 when absent
RFind(s, c) ==
  IF \E k \in 1..Len(s) : s[k] = c
  THEN (CHOOSE k \in 1..Len(s) : s[k] = c /\ \A m \in (k + 1)..Len(s) : s[m] # c) - 1
  ELSE -1

PyMax(a, b) == IF a >= b THEN a ELSE b

\* value of a run of decimal digits
RECURSIVE DigitsVal(_)
DigitsVal(ds) ==
  LET DigitVal(c) ==
        CASE c = "0" -> 0 [] c = "1" -> 1 [] c = "2" -> 2 [] c = "3" -> 3
          [] c = "4" -> 4 [] c = "5" -> 5 [] c = "6" -> 6 [] c = "7" -> 7
          [] c = "8" -> 8 [] c = "9" -> 9
  IN IF ds = << >> THEN 0
     ELSE 10 * DigitsVal(Slice(ds, 1, Len(ds) - 1)) + DigitVal(ds[Len(ds)])

RECURSIVE Pow(_, _)
Pow(b, n) == IF n <= 0 THEN 1 ELSE b * Pow(b, n - 1)

(***************************************************************************)
(* JSON values                                                             *)
(***************************************************************************)

Mk(t, v) == [t |-> t, v |-> v]

JNull == Mk("null", << >>)
JTrue == Mk("bool", <<"T">>)
JFalse == Mk("bool", <<"F">>)
JStr(cs) == Mk("str", cs)
JArr(items) == Mk("arr", items)
JObj(f) == Mk("obj", f)
\* a number m * 10^e, with m not divisible by 10 (0 is m = 0, e = 0); k tells
\* the Python type the decoder gives it, "int" or "float"
JNum(m, e, k) == Mk("num", <<m, e, k>>)
\* float('nan'), float('inf'), float('-inf') of the Python decoder
JSpecial(name) == Mk("special", <<name>>)

EmptyObj == [k \in {} |-> JNull]

ObjPut(f, key, val) ==
  [k \in (DOMAIN f) \cup {key} |-> IF k = key THEN val ELSE f[k]]

RECURSIVE NormNum(_, _)
NormNum(m, e) ==
  IF m = 0 THEN <<0, 0>>
  ELSE IF m % 10 = 0 THEN NormNum(m \div 10, e + 1)
  ELSE <<m, e>>

(***************************************************************************)
(* json.loads: the strict parser every repair stage calls                  *)
(* (gemini_service.py lines 47, 95, 117).  A result is                     *)
(* [ok, val, pos]: pos is the position after the parsed value.             *)
(***************************************************************************)

NoParse == [ok |-> FALSE, val |-> JNull, pos |-> 0]

Parsed(v, p) == [ok |-> TRUE, val |-> v, pos |-> p]

CharAt(s, i) == IF i >= 1 /\ i <= Len(s) THEN s[i] ELSE "EOF"

\* the literals of json.scanner
Lit ==
  [null |-> <<"n", "u", "l", "l">>,
   true |-> <<"t", "r", "u", "e">>,
   false |-> <<"f", "a", "l", "s", "e">>,
   NaN |-> <<"N", "a", "N">>,
   Infinity |-> <<"I", "n", "f", "i", "n", "i", "t", "y">>]

\* the character a two-character escape stands for (json.decoder BACKSLASH)
Unescape(c) ==
  CASE c = "\"" -> "\""
    [] c = "\\" -> "\\"
    [] c = "/" -> "/"
    [] c = "b" -> "<BS>"
    [] c = "f" -> "\f"
    [] c = "n" -> "\n"
    [] c = "r" -> "\r"
    [] c = "t" -> "\t"

\* json.decoder.py_scanstring: i is the position after the opening quote
RECURSIVE ScanString(_, _, _)
ScanString(s, i, acc) ==
  LET EscapeChars == {"\"", "\\", "/", "b", "f", "n", "r", "t"}
      \* characters below 0x20, which a strict string literal may not hold
      ControlChars == {"\n", "\t", "\r", "\f", "<BS>"}
      HexDigits ==
        Digits \cup {"a", "b", "c", "d", "e", "f", "A", "B", "C", "D", "E", "F"}
  IN IF i > Len(s) THEN NoParse
     ELSE IF s[i] = "\"" THEN Parsed(acc, i + 1)
     ELSE IF s[i] \in ControlChars THEN NoParse
     ELSE IF s[i] # "\\" THEN ScanString(s, i + 1, Append(acc, s[i]))
     ELSE IF CharAt(s, i + 1) \in EscapeChars
          THEN ScanString(s, i + 2, Append(acc, Unescape(s[i + 1])))
     ELSE IF /\ CharAt(s, i + 1) = "u"
             /\ \A k \in 2..5 : CharAt(s, i + k) \in HexDigits
          THEN ScanString(s, i + 6,
                 Append(acc, "\\u" \o s[i + 2] \o s[i + 3] \o s[i + 4] \o s[i + 5]))
     ELSE NoParse

\* json.scanner NUMBER_RE: (-?(?:0|[1-9]\d*))(\.\d+)?([eE][-+]?\d+)?
MatchNumber(s, i) ==
  LET \* the number ne[1] * 10^ne[2] read up to position eend - 1
      NumberParsed(ne, kind, eend) == Parsed(JNum(ne[1], ne[2], kind), eend)
      \* integer part s[j..iend-1], fraction s[iend+1..fend-1], exponent
      \* digits s[q..eend-1]
      NumberOf(neg, j, iend, fend, q, eend) ==
        LET hasFrac == fend > iend
            hasExp == eend > fend
            fdigits == IF hasFrac THEN Slice(s, iend + 1, fend - 1) ELSE << >>
            xabs == IF hasExp THEN DigitsVal(Slice(s, q, eend - 1)) ELSE 0
            negExp == hasExp /\ CharAt(s, fend + 1) = "-"
            mant == DigitsVal(Slice(s, j, iend - 1) \o fdigits)
        IN NumberParsed(NormNum((IF neg THEN 0 - 1 ELSE 1) * mant,
                                (IF negExp THEN 0 - 1 ELSE 1) * xabs - Len(fdigits)),
                        IF hasFrac \/ hasExp THEN "float" ELSE "int", eend)
      \* ([eE][-+]?\d+)? at position fend; q is where its digits would start
      NumberExp(neg, j, iend, fend, q) ==
        NumberOf(neg, j, iend, fend, q,
                 IF CharAt(s, fend) \in {"e", "E"} /\ CharAt(s, q) \in Digits
                 THEN SkipSet(s, q, Digits) ELSE fend)
      \* the fraction ends before position fend
      NumberFrac(neg, j, iend, fend) ==
        NumberExp(neg, j, iend, fend,
                  IF CharAt(s, fend + 1) \in {"+", "-"} THEN fend + 2 ELSE fend + 1)
      \* (\.\d+)? at position iend
      NumberInt(neg, j, iend) ==
        NumberFrac(neg, j, iend,
                   IF CharAt(s, iend) = "." /\ CharAt(s, iend + 1) \in Digits
                   THEN SkipSet(s, iend + 1, Digits) ELSE iend)
      \* (?:0|[1-9]\d*) at position j
      NumberFrom(neg, j) ==
        IF CharAt(s, j) \notin Digits THEN NoParse
        ELSE NumberInt(neg, j, IF s[j] = "0" THEN j + 1 ELSE SkipSet(s, j, Digits))
  IN NumberFrom(CharAt(s, i) = "-", IF CharAt(s, i) = "-" THEN i + 1 ELSE i)

\* json.scanner.py_make_scanner._scan_once, JSONObject and JSONArray
RECURSIVE ScanOnce(_, _), ScanMembers(_, _, _), ScanElements(_, _, _)

\* i is the position of the opening quote of the next key, f the members so far
ScanMembers(s, i, f) ==
  LET \* n is the position after a comma and whitespace: a key has to open
      NextMember(g, n) ==
        IF CharAt(s, n) # "\"" THEN NoParse ELSE ScanMembers(s, n, g)
      \* e is the position after a member and whitespace
      AfterMember(g, e) ==
        IF CharAt(s, e) = "}" THEN Parsed(JObj(g), e + 1)
        ELSE IF CharAt(s, e) # "," THEN NoParse
        ELSE NextMember(g, SkipSet(s, e + 1, JsonWs))
      \* v is the scan of the value of key
      MemberScanned(key, v) ==
        IF ~v.ok THEN NoParse
        ELSE AfterMember(ObjPut(f, key, v.val), SkipSet(s, v.pos, JsonWs))
      \* c is the position after a key and whitespace
      MemberColon(key, c) ==
        IF CharAt(s, c) # ":" THEN NoParse
        ELSE MemberScanned(key, ScanOnce(s, SkipSet(s, c + 1, JsonWs)))
      \* k is the scan of a key
      KeyScanned(k) ==
        IF ~k.ok THEN NoParse ELSE MemberColon(k.val, SkipSet(s, k.pos, JsonWs))
  IN KeyScanned(ScanString(s, i + 1, << >>))

\* i is the position of the next element, acc the elements so far
ScanElements(s, i, acc) ==
  LET \* e is the position after an element and whitespace
      AfterElement(items, e) ==
        IF CharAt(s, e) = "]" THEN Parsed(JArr(items), e + 1)
        ELSE IF CharAt(s, e) # "," THEN NoParse
        ELSE ScanElements(s, SkipSet(s, e + 1, JsonWs), items)
      \* v is the scan of an element
      ElementScanned(v) ==
        IF ~v.ok THEN NoParse
        ELSE AfterElement(Append(acc, v.val), SkipSet(s, v.pos, JsonWs))
  IN ElementScanned(ScanOnce(s, i))

ScanOnce(s, i) ==
  LET c == CharAt(s, i)
      \* r is the scan of a string literal
      StringScanned(r) == IF r.ok THEN Parsed(JStr(r.val), r.pos) ELSE NoParse
      \* n is the position after "{" and whitespace
      ObjectOpened(n) ==
        IF CharAt(s, n) = "}" THEN Parsed(JObj(EmptyObj), n + 1)
        ELSE IF CharAt(s, n) # "\"" THEN NoParse
        ELSE ScanMembers(s, n, EmptyObj)
      \* n is the position after "[" and whitespace
      ArrayOpened(n) ==
        IF CharAt(s, n) = "]" THEN Parsed(JArr(<< >>), n + 1)
        ELSE ScanElements(s, n, << >>)
      \* m is the match of NUMBER_RE; NaN, Infinity and -Infinity come after it
      NumberOrConstant(m) ==
        IF m.ok THEN m
        ELSE IF MatchAt(s, i, Lit.NaN) THEN Parsed(JSpecial("NaN"), i + 3)
        ELSE IF MatchAt(s, i, Lit.Infinity) THEN Parsed(JSpecial("Infinity"), i + 8)
        ELSE IF MatchAt(s, i, <<"-">> \o Lit.Infinity)
          THEN Parsed(JSpecial("-Infinity"), i + 9)
        ELSE NoParse
  IN IF c = "EOF" THEN NoParse
     ELSE IF c = "\"" THEN StringScanned(ScanString(s, i + 1, << >>))
     ELSE IF c = "{" THEN ObjectOpened(SkipSet(s, i + 1, JsonWs))
     ELSE IF c = "[" THEN ArrayOpened(SkipSet(s, i + 1, JsonWs))
     ELSE IF MatchAt(s, i, Lit.null) THEN Parsed(JNull, i + 4)
     ELSE IF MatchAt(s, i, Lit.true) THEN Parsed(JTrue, i + 4)
     ELSE IF MatchAt(s, i, Lit.false) THEN Parsed(JFalse, i + 5)
     ELSE NumberOrConstant(MatchNumber(s, i))

\* json.loads(s): the whole text must be one value between optional whitespace;
\* ok = FALSE stands for json.JSONDecodeError
JsonLoads(s) ==
  LET \* r is the scan of the first value of s
      WholeText(r) ==
        IF r.ok /\ SkipSet(s, r.pos, JsonWs) = Len(s) + 1 THEN r ELSE NoParse
  IN WholeText(ScanOnce(s, SkipSet(s, 1, JsonWs)))

(***************************************************************************)
(* GeminiService._safe_json_parse                                          *)
(***************************************************************************)

\* str.lower() of one character (re.IGNORECASE compares case-folded letters)
Lower(c) ==
  LET upper == <<"A", "B", "C", "D", "E", "F", "G", "H", "I", "J", "K", "L", "M",
                 "N", "O", "P", "Q", "R", "S", "T", "U", "V", "W", "X", "Y", "Z">>
      lower == <<"a", "b", "c", "d", "e", "f", "g", "h", "i", "j", "k", "l", "m",
                 "n", "o", "p", "q", "r", "s", "t", "u", "v", "w", "x", "y", "z">>
  IN IF \E k \in 1..Len(upper) : upper[k] = c
     THEN lower[CHOOSE k \in 1..Len(upper) : upper[k] = c]
     ELSE c

MatchAtCI(s, i, lit) ==
  /\ i >= 1
  /\ i + Len(lit) - 1 <= Len(s)
  /\ \A k \in 1..Len(lit) : Lower(s[i + k - 1]) = lit[k]

\* the backquote character (the lexer of TLA+ has no literal for it)
Backquote == "<bq>"

FenceJson == <<Backquote, Backquote, Backquote, "j", "s", "o", "n">>
Fence == <<Backquote, Backquote, Backquote>>

\* line 23: re.sub(r"```json\s*", "", text, flags=re.IGNORECASE)
RECURSIVE StripFenceOpen(_, _)
StripFenceOpen(s, i) ==
  IF i > Len(s) THEN << >>
  ELSE IF MatchAtCI(s, i, FenceJson)
       THEN StripFenceOpen(s, SkipSet(s, i + Len(FenceJson), PyWs))
  ELSE <<s[i]>> \o StripFenceOpen(s, i + 1)

\* line 24: re.sub(r"```\s*$", "", clean): the leftmost fence that only
\* whitespace follows is removed together with that whitespace
StripFenceClose(s) ==
  LET hits == {i \in 1..Len(s) :
                 /\ MatchAt(s, i, Fence)
                 /\ SkipSet(s, i + Len(Fence), PyWs) = Len(s) + 1}
  IN IF hits = {} THEN s
     ELSE Slice(s, 1, (CHOOSE i \in hits : \A j \in hits : i <= j) - 1)

\* lines 27-29: drop everything before the first '{' or '['
CutBeforeFirstBracket(s) ==
  LET hits == {i \in 1..Len(s) : s[i] \in {"{", "["}}
  IN IF hits = {} THEN s
     ELSE Slice(s, CHOOSE i \in hits : \A j \in hits : i <= j, Len(s))

\* lines 32-37: drop everything after the last '}' or ']'
CutAfterLastBracket(s) ==
  LET last_curly == RFind(s, "}")
      last_square == RFind(s, "]")
      last_bracket == PyMax(last_curly, last_square)
  IN IF last_bracket > -1 /\ last_bracket < Len(s) - 1
     THEN Slice(s, 1, last_bracket + 1)
     ELSE s

\* line 43: re.sub(r",\s*([\]}])", r"\1", clean)
RECURSIVE FixTrailingCommas(_, _)
FixTrailingCommas(s, i) ==
  IF i > Len(s) THEN << >>
  ELSE
    LET j == SkipSet(s, i + 1, PyWs)
    IN IF s[i] = "," /\ CharAt(s, j) \in {"]", "}"}
       THEN <<s[j]>> \o FixTrailingCommas(s, j + 1)
       ELSE <<s[i]>> \o FixTrailingCommas(s, i + 1)

\* lines 23-39: the cleaned text before the trailing-comma fix
Envelope(text) ==
  Strip(CutAfterLastBracket(CutBeforeFirstBracket(
    Strip(StripFenceClose(StripFenceOpen(text, 1))))))

\* lines 23-43: the text every later stage works on
Clean(text) == FixTrailingCommas(Envelope(text), 1)

\* lines 52-74: the token balancer's scan; st = [stack, in_string, escaped]
BalancerStep(st, char) ==
  IF st.escaped THEN [st EXCEPT !.escaped = FALSE]
  ELSE IF char = "\\" THEN [st EXCEPT !.escaped = TRUE]
  ELSE IF char = "\"" THEN [st EXCEPT !.in_string = ~st.in_string]
  ELSE IF ~st.in_string THEN
    IF char = "{" THEN [st EXCEPT !.stack = Append(st.stack, "}")]
    ELSE IF char = "[" THEN [st EXCEPT !.stack = Append(st.stack, "]")]
    ELSE IF char \in {"}", "]"} THEN
      IF st.stack # << >> /\ st.stack[Len(st.stack)] = char
      THEN [st EXCEPT !.stack = Slice(st.stack, 1, Len(st.stack) - 1)]
      ELSE st
    ELSE st
  ELSE st

RECURSIVE BalancerScan(_, _)
BalancerScan(clean, n) ==
  IF n = 0 THEN [stack |-> << >>, in_string |-> FALSE, escaped |-> FALSE]
  ELSE BalancerStep(BalancerScan(clean, n - 1), clean[n])

\* lines 90-91: the stack popped until empty
RECURSIVE PopAll(_)
PopAll(stack) ==
  IF stack = << >> THEN << >>
  ELSE <<stack[Len(stack)]>> \o PopAll(Slice(stack, 1, Len(stack) - 1))

\* lines 52-91: the text the token balancer hands to json.loads
Repaired(clean) ==
  LET \* lines 81-87: a dangling comma is dropped, a dangling colon gets a null
      FixDangling(closed) ==
        IF closed # << >> /\ closed[Len(closed)] = ","
          THEN Slice(closed, 1, Len(closed) - 1)
        ELSE IF closed # << >> /\ closed[Len(closed)] = ":"
          THEN closed \o Lit.null
        ELSE closed
      \* lines 76-91: st is the state the scan of clean ended in
      RepairedFrom(st) ==
        FixDangling(RStrip(IF st.in_string THEN Append(clean, "\"") ELSE clean))
          \o PopAll(st.stack)
  IN RepairedFrom(BalancerScan(clean, Len(clean)))

\* line 108: the number of cut points the truncation fallback keeps
MaxCandidates == 5

\* a fallback that keeps every prefix ending at a '}' or ']'
CandidatesAll(clean) ==
  LET cuts == {i \in 1..Len(clean) : clean[i] \in {"}", "]"}}
      RECURSIVE Nth(_, _)
      Nth(S, k) ==
        LET m == CHOOSE i \in S : \A j \in S : j <= i
        IN IF k = 1 THEN m ELSE Nth(S \ {m}, k - 1)
  IN [k \in 1..Cardinality(cuts) |-> Slice(clean, 1, Nth(cuts, k))]

\* lines 102-109: prefixes ending at a '}' or ']', nearest the end first
Candidates(clean) ==
  LET cuts == {i \in 1..Len(clean) : clean[i] \in {"}", "]"}}
      \* the k-th cut point counted from the end
      RECURSIVE Nth(_, _)
      Nth(S, k) ==
        LET m == CHOOSE i \in S : \A j \in S : j <= i
        IN IF k = 1 THEN m ELSE Nth(S \ {m}, k - 1)
      n == IF Cardinality(cuts) < MaxCandidates THEN Cardinality(cuts)
           ELSE MaxCandidates
  IN [k \in 1..n |-> Slice(clean, 1, Nth(cuts, k))]

\* line 111
Closers ==
  << << >>, <<"}">>, <<"]">>, <<"]", "}">>, <<"}", "}">>, <<"]", "}", "}">> >>

\* lines 113-114: (candidate, closer) pairs in the order they are tried
Attempts(clean) ==
  LET AttemptsOf(cands) ==
        [n \in 1..(Len(cands) * Len(Closers)) |->
           cands[((n - 1) \div Len(Closers)) + 1]
             \o Closers[((n - 1) % Len(Closers)) + 1]]
  IN AttemptsOf(Candidates(clean))

\* lines 116-117: json.loads of every attempt
ParseAll(atts) == [n \in 1..Len(atts) |-> JsonLoads(atts[n])]

\* a fallback that gives up without looking at its attempts
FirstParsingNone(parses) == 0

\* the first attempt that parses, 0 when none does
FirstParsing(parses) ==
  IF \E n \in 1..Len(parses) : parses[n].ok
  THEN CHOOSE n \in 1..Len(parses) :
         /\ parses[n].ok
         /\ \A m \in 1..(n - 1) : ~parses[m].ok
  ELSE 0

\* lines 46-124: the stages that follow the cleaning.  ok = FALSE stands for
\* the ValueError of line 124, len is the length that error reports, stage
\* names the stage that returned
ParseClean(clean) ==
  LET ParseResult(ok, val, stage) ==
        [ok |-> ok, val |-> val, stage |-> stage, len |-> Len(clean)]
      \* lines 113-124: hit is the first attempt that parsed
      TruncationResult(parses, hit) ==
        IF hit > 0 THEN ParseResult(TRUE, parses[hit].val, "truncation")
        ELSE ParseResult(FALSE, JNull, "failed")
      \* lines 101-124: the truncation fallback
      TruncationFallback(parses) == TruncationResult(parses, FirstParsing(parses))
      \* lines 93-99: balanced is json.loads of the balancer's text
      BalancerResult(balanced) ==
        IF balanced.ok THEN ParseResult(TRUE, balanced.val, "balancer")
        ELSE TruncationFallback(ParseAll(Attempts(clean)))
      \* lines 46-49: strict is json.loads of the cleaned text
      StrictResult(strict) ==
        IF strict.ok THEN ParseResult(TRUE, strict.val, "strict")
        ELSE BalancerResult(JsonLoads(Repaired(clean)))
  IN StrictResult(JsonLoads(clean))

\* _safe_json_parse(text)
SafeJsonParse(text) == ParseClean(Clean(text))

(***************************************************************************)
(* GeminiService._with_retry: classification and delay                     *)
(***************************************************************************)

Contains(msg, lit) == \E i \in 1..Len(msg) : MatchAt(msg, i, lit)

\* the markers _with_retry looks for in str(e)
Marker ==
  [code429 |-> <<"4", "2", "9">>,
   RESOURCE_EXHAUSTED |->
     <<"R", "E", "S", "O", "U", "R", "C", "E", "_",
       "E", "X", "H", "A", "U", "S", "T", "E", "D">>,
   code503 |-> <<"5", "0", "3">>,
   overloaded |-> <<"o", "v", "e", "r", "l", "o", "a", "d", "e", "d">>,
   UNAVAILABLE |-> <<"U", "N", "A", "V", "A", "I", "L", "A", "B", "L", "E">>,
   retry_in |-> <<"r", "e", "t", "r", "y", " ", "i", "n">>]

\* line 133
is_rate_limit(msg) ==
  Contains(msg, Marker.code429) \/ Contains(msg, Marker.RESOURCE_EXHAUSTED)

\* a classification that compares without regard to case
is_overloaded_anycase(msg) ==
  \/ Contains(msg, Marker.code503)
  \/ \E i \in 1..Len(msg) : MatchAtCI(msg, i, Marker.overloaded)
  \/ Contains(msg, Marker.UNAVAILABLE)

\* line 134
is_overloaded(msg) ==
  \/ Contains(msg, Marker.code503)
  \/ Contains(msg, Marker.overloaded)
  \/ Contains(msg, Marker.UNAVAILABLE)

\* a retry decision that forgets the classification
ShouldRetryAnyError(msg, attempt, max_retries) == attempt <= max_retries

\* a retry decision that forgets the attempt bound
ShouldRetryUnbounded(msg, attempt, max_retries) ==
  is_rate_limit(msg) \/ is_overloaded(msg)

\* line 136: the condition under which the failed call is tried again
ShouldRetry(msg, attempt, max_retries) ==
  (is_rate_limit(msg) \/ is_overloaded(msg)) /\ attempt <= max_retries

\* a delay in seconds is <<m, e>>, standing for m * 10^e (see NormNum)
NoDelay == <<0, 0>>

NoHint == [ok |-> FALSE, val |-> NoDelay]

\* line 141: re.search(r"retry in\s+(\d+(\.\d+)?)s", msg, re.IGNORECASE) at
\* position i; the result is [ok, val] with val = float(match.group(1))
RetryHintAt(msg, i) ==
  LET Hint(val) == [ok |-> TRUE, val |-> val]
      \* (\d+(\.\d+)?)s with digits msg[b..d-1], fraction digits msg[d+1..f-1]
      HintValue(b, d, f) ==
        IF Lower(CharAt(msg, d)) = "s"
          THEN Hint(NormNum(DigitsVal(Slice(msg, b, d - 1)), 0))
        ELSE IF CharAt(msg, d) = "." /\ f > d + 1 /\ Lower(CharAt(msg, f)) = "s"
          THEN Hint(NormNum(DigitsVal(Slice(msg, b, d - 1) \o Slice(msg, d + 1, f - 1)),
                            0 - (f - d - 1)))
        ELSE NoHint
      \* \d+ matched msg[b..d-1]
      HintDigits(b, d) ==
        IF d = b THEN NoHint
        ELSE HintValue(b, d,
               IF CharAt(msg, d) = "." THEN SkipSet(msg, d + 1, Digits) ELSE d)
      \* \s+ matched msg[a..b-1]
      HintSpace(a, b) ==
        IF b = a THEN NoHint ELSE HintDigits(b, SkipSet(msg, b, Digits))
  IN IF ~MatchAtCI(msg, i, Marker.retry_in) THEN NoHint
     ELSE HintSpace(i + Len(Marker.retry_in), SkipSet(msg, i + Len(Marker.retry_in), PyWs))

\* the leftmost match of the pattern in msg
RetryHint(msg) ==
  LET FirstHint(hits) ==
        IF hits = {} THEN NoHint
        ELSE RetryHintAt(msg, CHOOSE i \in hits : \A j \in hits : i <= j)
  IN FirstHint({i \in 1..Len(msg) : RetryHintAt(msg, i).ok})

\* a backoff whose exponent is off by one
ExponentialBackoffFromFour(attempt) == NormNum(2 * Pow(2, attempt), 0)

\* line 138: delay = 2 * (2 ** (attempt - 1))
ExponentialBackoff(attempt) == NormNum(2 * Pow(2, attempt - 1), 0)

\* lines 138-143: the delay slept before the next attempt
RetryDelay(attempt, msg) ==
  LET DelayWith(hint) == IF hint.ok THEN hint.val ELSE ExponentialBackoff(attempt)
  IN DelayWith(RetryHint(msg))

\* line 126: max_retries=5
DefaultMaxRetries == 5

(***************************************************************************)
(* Upstream behaviour: error messages and response texts                   *)
(***************************************************************************)

\* the messages of the exceptions the upstream call raises in the model
Msg ==
  [rate |-> <<"4", "2", "9">>,
   unavailable |->
     <<"5", "0", "3", " ", "U", "N", "A", "V", "A", "I", "L", "A", "B", "L", "E">>,
   exhausted |-> Marker.RESOURCE_EXHAUSTED,
   overloaded |-> Marker.overloaded,
   quota |->
     <<"4", "2", "9", " ", "r", "e", "t", "r", "y", " ", "i", "n", " ", "7", "s">>,
   busy |->
     <<"5", "0", "3", " ", "R", "e", "t", "r", "y", " ", "I", "n", " ", "1", ".", "5", "s">>,
   boom |-> <<"b", "o", "o", "m">>,
   hint_only |-> <<"r", "e", "t", "r", "y", " ", "i", "n", " ", "7", "s">>,
   capital |-> <<"O", "v", "e", "r", "l", "o", "a", "d", "e", "d">>]

ErrorMessages == {Msg[f] : f \in DOMAIN Msg}

NoErr == << >>

(***************************************************************************)
(* Python operations the merge applies to decoded values                   *)
(* A result is [ok, val, exc]: ok = FALSE stands for the exception exc.    *)
(***************************************************************************)

Value(v) == [ok |-> TRUE, val |-> v, exc |-> "none"]

Raise(exc) == [ok |-> FALSE, val |-> JNull, exc |-> exc]

\* bool(v)
Truthy(v) ==
  CASE v.t = "null" -> FALSE
    [] v.t = "bool" -> v = JTrue
    [] v.t = "num" -> v.v[1] # 0
    [] v.t = "special" -> TRUE
    [] v.t = "str" -> v.v # << >>
    [] v.t = "arr" -> v.v # << >>
    [] v.t = "obj" -> DOMAIN v.v # {}

PyFloatVal(m, e) == LET n == NormNum(m, e) IN JNum(n[1], n[2], "float")

\* the decimal digits of a natural number
RECURSIVE NatText(_)
NatText(n) ==
  LET DigitChar(d) ==
        CASE d = 0 -> "0" [] d = 1 -> "1" [] d = 2 -> "2" [] d = 3 -> "3"
          [] d = 4 -> "4" [] d = 5 -> "5" [] d = 6 -> "6" [] d = 7 -> "7"
          [] d = 8 -> "8" [] d = 9 -> "9"
  IN IF n < 10 THEN <<DigitChar(n)>>
     ELSE Append(NatText(n \div 10), DigitChar(n % 10))

Abs(n) == IF n < 0 THEN 0 - n ELSE n

\* str(x) of an int or a float in positional notation (the magnitudes for
\* which repr switches to exponent notation are outside the model)
NumText(num) ==
  LET RECURSIVE Zeros(_)
      Zeros(n) == IF n <= 0 THEN << >> ELSE <<"0">> \o Zeros(n - 1)
      \* the digits ds of the mantissa with the decimal point moved by e
      Positional(ds, e) ==
        IF e >= 0
          THEN ds \o Zeros(e) \o (IF num[3] = "float" THEN <<".", "0">> ELSE << >>)
        ELSE IF Len(ds) > 0 - e
          THEN Slice(ds, 1, Len(ds) + e) \o <<".">>
                 \o Slice(ds, Len(ds) + e + 1, Len(ds))
        ELSE <<"0", ".">> \o Zeros((0 - e) - Len(ds)) \o ds
  IN (IF num[1] < 0 THEN <<"-">> ELSE << >>)
       \o Positional(NatText(Abs(num[1])), num[2])

\* repr(x) of a list or a dict element; a str is shown between single quotes
\* (the escapes repr adds for quotes and control characters are not modelled)
RECURSIVE PyRepr(_), ReprItems(_), ReprMembers(_, _)
PyRepr(v) ==
  CASE v.t = "null" -> <<"N", "o", "n", "e">>
    [] v.t = "bool" -> IF v = JTrue THEN <<"T", "r", "u", "e">>
                       ELSE <<"F", "a", "l", "s", "e">>
    [] v.t = "num" -> NumText(v.v)
    [] v.t = "special" -> <<v.v[1]>>
    [] v.t = "str" -> <<"'">> \o v.v \o <<"'">>
    [] v.t = "arr" -> <<"[">> \o ReprItems(v.v) \o <<"]">>
    [] v.t = "obj" -> <<"{">> \o ReprMembers(v.v, DOMAIN v.v) \o <<"}">>

ReprItems(items) ==
  IF items = << >> THEN << >>
  ELSE IF Len(items) = 1 THEN PyRepr(items[1])
  ELSE PyRepr(items[1]) \o <<",", " ">> \o ReprItems(Tail(items))

ReprMembers(f, keys) ==
  IF keys = {} THEN << >>
  ELSE LET k == CHOOSE x \in keys : TRUE
           one == <<"'">> \o k \o <<"'", ":", " ">> \o PyRepr(f[k])
       IN IF keys = {k} THEN one
          ELSE one \o <<",", " ">> \o ReprMembers(f, keys \ {k})

\* str(v)
PyStr(v) == IF v.t = "str" THEN v ELSE JStr(PyRepr(v))

\* float(s) of a str: optional blanks and sign, digits with an optional point,
\* an optional exponent (inf, nan and digit-group underscores are not modelled)
FloatOfText(cs) ==
  LET \* integer digits s[j..iend-1], fraction digits s[iend+1..fend-1],
      \* exponent digits s[q..eend-1]
      FloatValue(s, j, iend, fend, q, eend) ==
        LET point == CharAt(s, iend) = "."
            idigits == Slice(s, j, iend - 1)
            fdigits == IF point THEN Slice(s, iend + 1, fend - 1) ELSE << >>
            hasExp == CharAt(s, fend) \in {"e", "E"}
            xabs == DigitsVal(Slice(s, q, eend - 1))
            neg == CharAt(s, 1) = "-"
            negExp == CharAt(s, fend + 1) = "-"
        IN IF /\ idigits \o fdigits # << >>
              /\ (hasExp => eend > q)
              /\ eend = Len(s) + 1
           THEN Value(PyFloatVal(
                  (IF neg THEN 0 - 1 ELSE 1) * DigitsVal(idigits \o fdigits),
                  (IF hasExp THEN (IF negExp THEN 0 - 1 ELSE 1) * xabs ELSE 0)
                    - Len(fdigits)))
           ELSE Raise("ValueError")
      \* q is where the digits of an exponent would start
      FloatExp(s, j, iend, fend, q) ==
        FloatValue(s, j, iend, fend, q,
                   IF CharAt(s, fend) \in {"e", "E"} /\ q <= Len(s)
                   THEN SkipSet(s, q, Digits) ELSE fend)
      \* the fraction ends before position fend
      FloatFrac(s, j, iend, fend) ==
        FloatExp(s, j, iend, fend,
                 IF CharAt(s, fend + 1) \in {"+", "-"} THEN fend + 2 ELSE fend + 1)
      \* the integer digits end before position iend
      FloatInt(s, j, iend) ==
        FloatFrac(s, j, iend,
                  IF CharAt(s, iend) = "." THEN SkipSet(s, iend + 1, Digits)
                  ELSE iend)
      \* the digits start at position j
      FloatSigned(s, j) ==
        FloatInt(s, j, IF j > Len(s) THEN j ELSE SkipSet(s, j, Digits))
      \* s is the text without the blanks around it
      FloatStripped(s) ==
        FloatSigned(s, IF CharAt(s, 1) \in {"+", "-"} THEN 2 ELSE 1)
  IN FloatStripped(Strip(cs))

\* float(v)
PyFloat(v) ==
  CASE v.t = "num" -> Value(PyFloatVal(v.v[1], v.v[2]))
    [] v.t = "special" -> Value(v)
    [] v.t = "bool" -> Value(PyFloatVal(IF v = JTrue THEN 1 ELSE 0, 0))
    [] v.t = "str" -> FloatOfText(v.v)
    [] v.t \in {"null", "arr", "obj"} -> Raise("TypeError")

(***************************************************************************)
(* Field names and literals of the merge (gemini_service.py lines 232-304, *)
(* models.py)                                                              *)
(***************************************************************************)

\* the keys of the record: the fields of models.py and of the dicts that
\* _parse_line_items and _post_process_invoice_data build
K ==
  [description |-> <<"d", "e", "s", "c", "r", "i", "p", "t", "i", "o", "n">>,
   partNumber |-> <<"p", "a", "r", "t", "N", "u", "m", "b", "e", "r">>,
   quantity |-> <<"q", "u", "a", "n", "t", "i", "t", "y">>,
   unitMeasure |-> <<"u", "n", "i", "t", "M", "e", "a", "s", "u", "r", "e">>,
   unitPrice |-> <<"u", "n", "i", "t", "P", "r", "i", "c", "e">>,
   total |-> <<"t", "o", "t", "a", "l">>,
   netWeight |-> <<"n", "e", "t", "W", "e", "i", "g", "h", "t">>,
   manufacturerRef |->
     <<"m", "a", "n", "u", "f", "a", "c",
       "t", "u", "r", "e", "r", "R", "e", "f">>,
   ncm |-> <<"n", "c", "m">>,
   productCode |-> <<"p", "r", "o", "d", "u", "c", "t", "C", "o", "d", "e">>,
   taxClassificationDetail |->
     <<"t", "a", "x", "C", "l", "a", "s", "s", "i", "f", "i",
       "c", "a", "t", "i", "o", "n", "D", "e", "t", "a", "i", "l">>,
   unitNetWeight |->
     <<"u", "n", "i", "t", "N", "e",
       "t", "W", "e", "i", "g", "h", "t">>,
   manufacturerCode |->
     <<"m", "a", "n", "u", "f", "a", "c", "t",
       "u", "r", "e", "r", "C", "o", "d", "e">>,
   weightUnit |-> <<"w", "e", "i", "g", "h", "t", "U", "n", "i", "t">>,
   lineItems |-> <<"l", "i", "n", "e", "I", "t", "e", "m", "s">>,
   grandTotal |-> <<"g", "r", "a", "n", "d", "T", "o", "t", "a", "l">>,
   totalNetWeight |->
     <<"t", "o", "t", "a", "l", "N", "e",
       "t", "W", "e", "i", "g", "h", "t">>,
   totalGrossWeight |->
     <<"t", "o", "t", "a", "l", "G", "r", "o",
       "s", "s", "W", "e", "i", "g", "h", "t">>,
   totalPackages |->
     <<"t", "o", "t", "a", "l", "P",
       "a", "c", "k", "a", "g", "e", "s">>,
   freightValue |->
     <<"f", "r", "e", "i", "g", "h",
       "t", "V", "a", "l", "u", "e">>,
   insuranceValue |->
     <<"i", "n", "s", "u", "r", "a", "n",
       "c", "e", "V", "a", "l", "u", "e">>,
   otherChargesValue |->
     <<"o", "t", "h", "e", "r", "C", "h", "a",
       "r", "g", "e", "s", "V", "a", "l", "u", "e">>,
   invoiceNumber |->
     <<"i", "n", "v", "o", "i", "c",
       "e", "N", "u", "m", "b", "e", "r">>,
   date |-> <<"d", "a", "t", "e">>,
   exporterName |->
     <<"e", "x", "p", "o", "r", "t",
       "e", "r", "N", "a", "m", "e">>,
   importerName |->
     <<"i", "m", "p", "o", "r", "t",
       "e", "r", "N", "a", "m", "e">>,
   currency |-> <<"c", "u", "r", "r", "e", "n", "c", "y">>,
   incoterm |-> <<"i", "n", "c", "o", "t", "e", "r", "m">>,
   exporterAddress |->
     <<"e", "x", "p", "o", "r", "t", "e",
       "r", "A", "d", "d", "r", "e", "s", "s">>,
   exporterTaxId |->
     <<"e", "x", "p", "o", "r", "t",
       "e", "r", "T", "a", "x", "I", "d">>,
   importerAddress |->
     <<"i", "m", "p", "o", "r", "t", "e",
       "r", "A", "d", "d", "r", "e", "s", "s">>,
   importerTaxId |->
     <<"i", "m", "p", "o", "r", "t",
       "e", "r", "T", "a", "x", "I", "d">>,
   countryOfOrigin |->
     <<"c", "o", "u", "n", "t", "r", "y",
       "O", "f", "O", "r", "i", "g", "i", "n">>,
   countryOfAcquisition |->
     <<"c", "o", "u", "n", "t", "r", "y", "O", "f", "A",
       "c", "q", "u", "i", "s", "i", "t", "i", "o", "n">>,
   countryOfProvenance |->
     <<"c", "o", "u", "n", "t", "r", "y", "O", "f",
       "P", "r", "o", "v", "e", "n", "a", "n", "c", "e">>,
   portOfLoading |->
     <<"p", "o", "r", "t", "O", "f",
       "L", "o", "a", "d", "i", "n", "g">>,
   portOfDischarge |->
     <<"p", "o", "r", "t", "O", "f", "D",
       "i", "s", "c", "h", "a", "r", "g", "e">>,
   volumeType |-> <<"v", "o", "l", "u", "m", "e", "T", "y", "p", "e">>,
   paymentTerms |->
     <<"p", "a", "y", "m", "e", "n",
       "t", "T", "e", "r", "m", "s">>]

\* the defaults the code writes: of _parse_line_items' columns, of the
\* weight unit, and of an empty response text
Default ==
  [description |->
     <<"I", "t", "e", "m", " ", "D", "e", "s", "c", "o", "n", "h", "e", "c",
       "i", "d", "o">>,
   unitMeasure |-> <<"U", "N">>,
   weightUnit |-> <<"K", "G">>,
   metadata_text |-> <<"{", "}">>,
   line_items_text |-> <<"[", "]">>]

PyZero == JNum(0, 0, "float")

(***************************************************************************)
(* GeminiService._parse_line_items                                         *)
(***************************************************************************)

\* len(row); -1 stands for the TypeError of a value without a length
PyLen(row) ==
  CASE row.t \in {"arr", "str"} -> Len(row.v)
    [] row.t = "obj" -> Cardinality(DOMAIN row.v)
    [] row.t \in {"null", "bool", "num", "special"} -> -1

\* row[i] (i counted from 0) of a list or a str
Cell(row, i) == IF row.t = "str" THEN JStr(<<row.v[i + 1]>>) ELSE row.v[i + 1]

\* str(row[i]) if len(row) > i and row[i] else default
StrColumn(row, i, default) ==
  IF Len(row.v) > i /\ Truthy(Cell(row, i)) THEN PyStr(Cell(row, i)) ELSE default

\* float(row[i]) if len(row) > i and row[i] else 0.0
FloatColumn(row, i) ==
  IF Len(row.v) > i /\ Truthy(Cell(row, i)) THEN PyFloat(Cell(row, i)) ELSE Value(PyZero)

\* the first failure among results, or none
FirstFailure(results) ==
  IF \E n \in 1..Len(results) : ~results[n].ok
  THEN results[CHOOSE n \in 1..Len(results) :
                 ~results[n].ok /\ \A m \in 1..(n - 1) : results[m].ok]
  ELSE Value(JNull)

\* lines 237-255: the loop over the rows of a matrix
RECURSIVE MatrixItems(_, _)
MatrixItems(rows, acc) ==
  LET \* lines 240-255: the dict built from one row of at least one column
      RowItem(row) ==
        LET \* the numeric columns converted, in the order the dict display
            \* evaluates them
            RowItemOf(quantity, unitPrice, total, netWeight) ==
              IF row.t = "obj" THEN Raise("KeyError")
              ELSE IF ~FirstFailure(<<quantity, unitPrice, total, netWeight>>).ok
                THEN FirstFailure(<<quantity, unitPrice, total, netWeight>>)
              ELSE Value(JObj(
                (K.description :> (IF Cell(row, 0) # JNull THEN PyStr(Cell(row, 0))
                                   ELSE JStr(Default.description)))
                @@ (K.partNumber :> StrColumn(row, 1, JNull))
                @@ (K.quantity :> quantity.val)
                @@ (K.unitMeasure :> StrColumn(row, 3, JStr(Default.unitMeasure)))
                @@ (K.unitPrice :> unitPrice.val)
                @@ (K.total :> total.val)
                @@ (K.netWeight :> netWeight.val)
                @@ (K.manufacturerRef :> StrColumn(row, 7, JNull))
                @@ (K.ncm :> StrColumn(row, 8, JNull))
                @@ (K.productCode :> JNull)
                @@ (K.taxClassificationDetail :> JNull)
                @@ (K.unitNetWeight :> PyZero)
                @@ (K.manufacturerCode :> JNull)))
        IN RowItemOf(FloatColumn(row, 2), FloatColumn(row, 4), FloatColumn(row, 5),
                     FloatColumn(row, 6))
      \* item is the dict of the first of rows
      RowAppended(item) ==
        IF item.ok THEN MatrixItems(Tail(rows), Append(acc, item.val)) ELSE item
  IN IF rows = << >> THEN Value(JArr(acc))
     ELSE IF PyLen(rows[1]) = -1 THEN Raise("TypeError")
     ELSE IF PyLen(rows[1]) >= 1 THEN RowAppended(RowItem(rows[1]))
     ELSE MatrixItems(Tail(rows), acc)

\* lines 232-262
ParseLineItems(raw_data) ==
  IF raw_data.t = "arr" THEN
    IF raw_data.v # << >> /\ raw_data.v[1].t = "arr"
    THEN MatrixItems(raw_data.v, << >>)
    ELSE Value(raw_data)
  ELSE IF raw_data.t = "obj" /\ K.lineItems \in DOMAIN raw_data.v
    THEN Value(raw_data.v[K.lineItems])
  ELSE Value(JArr(<< >>))

(***************************************************************************)
(* GeminiService._post_process_invoice_data                                *)
(***************************************************************************)

\* lines 268-271
numeric_fields ==
  <<K.grandTotal, K.totalNetWeight, K.totalGrossWeight, K.totalPackages,
    K.freightValue, K.insuranceValue, K.otherChargesValue>>

\* a normalisation that fills in the missing fields only and leaves a null
\* where it finds one
NormalizeNumericMissingOnly(result, n) ==
  Value(JObj([k \in DOMAIN result \cup {numeric_fields[i] : i \in n..Len(numeric_fields)} |->
                IF k \in DOMAIN result THEN result[k] ELSE PyZero]))

\* lines 272-276 for the fields from the n-th on; result is a dict (function)
RECURSIVE NormalizeNumeric(_, _)
NormalizeNumeric(result, n) ==
  LET field == numeric_fields[n]
      \* f is float(result[field])
      FieldConverted(f) ==
        IF f.ok THEN NormalizeNumeric(ObjPut(result, field, f.val), n + 1) ELSE f
  IN IF n > Len(numeric_fields) THEN Value(JObj(result))
     ELSE IF field \in DOMAIN result /\ result[field] # JNull
       THEN FieldConverted(PyFloat(result[field]))
     ELSE NormalizeNumeric(ObjPut(result, field, PyZero), n + 1)

\* float(item.get(key, 0) or 0)
FloatField(item, key) ==
  IF key \in DOMAIN item /\ Truthy(item[key]) THEN PyFloat(item[key])
  ELSE Value(PyZero)

\* x > 0 of a float
Positive(x) == (x.t = "num" /\ x.v[1] > 0) \/ x = JSpecial("Infinity")

\* n / d rounded to the nearest integer, ties to even (n >= 0, d > 0)
RoundDiv(n, d) ==
  LET q == n \div d
      r == n % d
  IN IF 2 * r > d \/ (2 * r = d /\ q % 2 = 1) THEN q + 1 ELSE q

\* <<quotient, remainder>> of (n * 10^k) / d by long division (n >= 0, d > 0)
RECURSIVE LongDiv(_, _, _)
LongDiv(n, d, k) ==
  IF k <= 0 THEN <<n \div d, n % d>>
  ELSE LET p == LongDiv(n, d, k - 1)
       IN <<10 * p[1] + ((10 * p[2]) \div d), (10 * p[2]) % d>>

\* n * 10^k / d rounded to the nearest integer, ties to even
RoundScaledDiv(n, d, k) ==
  LET p == LongDiv(n, d, k)
  IN IF 2 * p[2] > d \/ (2 * p[2] = d /\ p[1] % 2 = 1) THEN p[1] + 1 ELSE p[1]

\* a unit weight cut off after six decimals instead of rounded
UnitWeightTruncated(net_weight, qty) ==
  PyFloatVal(LongDiv(net_weight.v[1],
                     qty.v[1] * Pow(10, PyMax(0, 0 - (net_weight.v[2] - qty.v[2] + 6))),
                     PyMax(0, net_weight.v[2] - qty.v[2] + 6))[1], -6)

\* line 289: float(f"{(net_weight / qty):.6f}"), both positive
UnitWeight(net_weight, qty) ==
  IF net_weight.t # "num" \/ qty.t # "num" THEN net_weight
  ELSE
    LET a == net_weight.v[2] - qty.v[2] + 6
    IN IF a >= 0
       THEN PyFloatVal(RoundScaledDiv(net_weight.v[1], qty.v[1], a), -6)
       ELSE PyFloatVal(RoundDiv(net_weight.v[1], qty.v[1] * Pow(10, 0 - a)), -6)

\* line 291: float(f"{(unit_net_weight * qty):.4f}"), both positive
LineWeight(unit_net_weight, qty) ==
  IF unit_net_weight.t # "num" \/ qty.t # "num" THEN unit_net_weight
  ELSE
    LET m == unit_net_weight.v[1] * qty.v[1]
        e == unit_net_weight.v[2] + qty.v[2]
    IN IF e >= -4 THEN PyFloatVal(m, e)
       ELSE PyFloatVal(RoundDiv(m, Pow(10, (0 - e) - 4)), -4)

\* lines 282-300: one item of the loop
ProcessItem(item) ==
  LET \* the five numbers read from the item
      ProcessItemOf(qty, net0, unit0, price, total) ==
        IF ~FirstFailure(<<qty, net0, unit0, price, total>>).ok
          THEN FirstFailure(<<qty, net0, unit0, price, total>>)
        ELSE
          LET derive_unit == Positive(net0.val) /\ Positive(qty.val)
              derive_net == ~derive_unit /\ Positive(unit0.val) /\ Positive(qty.val)
          IN Value(JObj(
               (K.quantity :> qty.val)
               @@ (K.netWeight :> (IF derive_net THEN LineWeight(unit0.val, qty.val)
                                   ELSE net0.val))
               @@ (K.unitNetWeight :> (IF derive_unit
                                       THEN UnitWeight(net0.val, qty.val)
                                       ELSE unit0.val))
               @@ (K.unitPrice :> price.val)
               @@ (K.total :> total.val)
               @@ (K.weightUnit :> JStr(Default.weightUnit))
               @@ item.v))
  IN IF item.t # "obj" THEN Raise("AttributeError")
     ELSE ProcessItemOf(FloatField(item.v, K.quantity),
                        FloatField(item.v, K.netWeight),
                        FloatField(item.v, K.unitNetWeight),
                        FloatField(item.v, K.unitPrice),
                        FloatField(item.v, K.total))

\* lines 281-300: the loop
RECURSIVE ProcessItems(_, _)
ProcessItems(items, acc) ==
  LET \* one is the first of items after its pass through the loop body
      ItemProcessed(one) ==
        IF one.ok THEN ProcessItems(Tail(items), Append(acc, one.val)) ELSE one
  IN IF items = << >> THEN Value(JArr(acc))
     ELSE ItemProcessed(ProcessItem(items[1]))

\* lines 264-304; data is a dict (function)
PostProcessInvoiceData(data) ==
  LET \* line 302: the processed items are stored back
      ItemsStored(headers, items) ==
        IF items.ok THEN Value(JObj(ObjPut(headers.v, K.lineItems, items.val)))
        ELSE items
      \* lines 278-304 with the header fields normalised
      HeadersNormalized(headers) ==
        IF ~headers.ok THEN headers
        ELSE IF K.lineItems \in DOMAIN data /\ data[K.lineItems].t = "arr"
          THEN ItemsStored(headers.val, ProcessItems(data[K.lineItems].v, << >>))
        ELSE headers
  IN HeadersNormalized(NormalizeNumeric(data, 1))

\* lines 218-224 of extract_invoice_data: normalise the rows, merge, post-process
MergeRecord(metadata, raw_items) ==
  LET \* line_items_obj is what _parse_line_items returned or raised
      MergeItems(line_items_obj) ==
        IF ~line_items_obj.ok THEN line_items_obj
        ELSE IF metadata.t # "obj" THEN Raise("TypeError")
        ELSE PostProcessInvoiceData(
               ObjPut(metadata.v, K.lineItems, line_items_obj.val))
  IN MergeItems(ParseLineItems(raw_items))

(***************************************************************************)
(* models.py: InvoiceData built from final_result, validated by pydantic   *)
(* (version 2, which google-genai requires: a str field takes a str only,  *)
(* a float field takes any number, an int field takes a float without      *)
(* fractional part, undeclared keys are dropped)                           *)
(***************************************************************************)

\* a field declared Optional[str] = None
OptionalStr(d, key) ==
  IF key \notin DOMAIN d \/ d[key] = JNull THEN Value(JNull)
  ELSE IF d[key].t = "str" THEN Value(d[key])
  ELSE Raise("ValidationError")

\* a field declared str, with its default (JNull: the field is required)
RequiredStr(d, key, default) ==
  IF key \notin DOMAIN d
    THEN IF default = JNull THEN Raise("ValidationError") ELSE Value(default)
  ELSE IF d[key].t = "str" THEN Value(d[key])
  ELSE Raise("ValidationError")

\* a float field's input: a number, a bool, or a str that reads as a number;
\* what float() refuses, the validation refuses
FloatInput(v) ==
  LET FloatChecked(r) == IF r.ok THEN r ELSE Raise("ValidationError")
  IN FloatChecked(PyFloat(v))

\* a field declared float, with its default (JNull: the field is required)
FloatFieldOf(d, key, default) ==
  IF key \notin DOMAIN d
    THEN IF default = JNull THEN Raise("ValidationError") ELSE Value(default)
  ELSE FloatInput(d[key])

\* the first failure among the results of fields, or the dict they make
Collect(keys, results) ==
  IF \E n \in 1..Len(keys) : ~results[n].ok
  THEN results[CHOOSE n \in 1..Len(keys) :
                 ~results[n].ok /\ \A m \in 1..(n - 1) : results[m].ok]
  ELSE Value(JObj([k \in {keys[n] : n \in 1..Len(keys)} |->
                     results[CHOOSE n \in 1..Len(keys) : keys[n] = k].val]))

\* models.py lines 4-19: LineItem
LineItem(item) ==
  LET LineItemKeys ==
        <<K.description, K.partNumber, K.quantity, K.unitMeasure, K.unitPrice,
          K.total, K.netWeight, K.manufacturerRef, K.ncm, K.productCode,
          K.taxClassificationDetail, K.unitNetWeight, K.weightUnit>>
      \* a field declared Optional[float] = 0
      OptionalFloat(d, key) ==
        IF key \in DOMAIN d /\ d[key] = JNull THEN Value(JNull)
        ELSE FloatFieldOf(d, key, JNum(0, 0, "int"))
      LineItemOf(d) ==
        Collect(LineItemKeys,
          <<RequiredStr(d, K.description, JNull),
            OptionalStr(d, K.partNumber),
            FloatFieldOf(d, K.quantity, JNull),
            RequiredStr(d, K.unitMeasure, JNull),
            FloatFieldOf(d, K.unitPrice, JNull),
            FloatFieldOf(d, K.total, JNull),
            FloatFieldOf(d, K.netWeight, JNull),
            OptionalStr(d, K.manufacturerRef),
            OptionalStr(d, K.ncm),
            OptionalStr(d, K.productCode),
            OptionalStr(d, K.taxClassificationDetail),
            OptionalFloat(d, K.unitNetWeight),
            RequiredStr(d, K.weightUnit, JStr(Default.weightUnit))>>)
  IN IF item.t # "obj" THEN Raise("ValidationError") ELSE LineItemOf(item.v)

\* models.py lines 21-49: InvoiceData
InvoiceData(final_result) ==
  LET InvoiceDataKeys ==
        <<K.invoiceNumber, K.date, K.exporterName, K.importerName, K.currency,
          K.grandTotal, K.incoterm, K.exporterAddress, K.exporterTaxId,
          K.importerAddress, K.importerTaxId, K.countryOfOrigin,
          K.countryOfAcquisition, K.countryOfProvenance, K.portOfLoading,
          K.portOfDischarge, K.totalNetWeight, K.totalGrossWeight,
          K.totalPackages, K.volumeType, K.paymentTerms, K.freightValue,
          K.insuranceValue, K.otherChargesValue, K.lineItems>>
      \* a field declared int = 0: it takes a number without fractional part
      IntChecked(f) ==
        IF f.ok /\ f.val.t = "num" /\ f.val.v[2] >= 0
        THEN Value(JNum(f.val.v[1], f.val.v[2], "int"))
        ELSE Raise("ValidationError")
      IntFieldOf(d, key) ==
        IF key \notin DOMAIN d THEN Value(JNum(0, 0, "int"))
        ELSE IntChecked(FloatInput(d[key]))
      \* lineItems: List[LineItem] = []; models is the validation of every
      \* element of the list
      ItemsChecked(models) ==
        IF \E n \in 1..Len(models) : ~models[n].ok THEN Raise("ValidationError")
        ELSE Value(JArr([n \in 1..Len(models) |-> models[n].val]))
      ItemsValidated(items) ==
        ItemsChecked([n \in 1..Len(items) |-> LineItem(items[n])])
      LineItemList(d) ==
        IF K.lineItems \notin DOMAIN d THEN Value(JArr(<< >>))
        ELSE IF d[K.lineItems].t # "arr" THEN Raise("ValidationError")
        ELSE ItemsValidated(d[K.lineItems].v)
      InvoiceDataOf(d, zero) ==
        Collect(InvoiceDataKeys,
          <<OptionalStr(d, K.invoiceNumber), OptionalStr(d, K.date),
            OptionalStr(d, K.exporterName), OptionalStr(d, K.importerName),
            OptionalStr(d, K.currency), FloatFieldOf(d, K.grandTotal, zero),
            OptionalStr(d, K.incoterm), OptionalStr(d, K.exporterAddress),
            OptionalStr(d, K.exporterTaxId), OptionalStr(d, K.importerAddress),
            OptionalStr(d, K.importerTaxId), OptionalStr(d, K.countryOfOrigin),
            OptionalStr(d, K.countryOfAcquisition),
            OptionalStr(d, K.countryOfProvenance),
            OptionalStr(d, K.portOfLoading), OptionalStr(d, K.portOfDischarge),
            FloatFieldOf(d, K.totalNetWeight, zero),
            FloatFieldOf(d, K.totalGrossWeight, zero),
            IntFieldOf(d, K.totalPackages),
            OptionalStr(d, K.volumeType), OptionalStr(d, K.paymentTerms),
            FloatFieldOf(d, K.freightValue, zero),
            FloatFieldOf(d, K.insuranceValue, zero),
            FloatFieldOf(d, K.otherChargesValue, zero), LineItemList(d)>>)
  IN InvoiceDataOf(final_result.v, JNum(0, 0, "int"))

(***************************************************************************)
(* State                                                                   *)
(***************************************************************************)

VARIABLES
  phase,             \* position of extract_invoice_data ("solo": _with_retry alone)
  rpc,               \* position of the running _with_retry invocation
  attempt,           \* _with_retry's attempt parameter
  max_retries,       \* _with_retry's max_retries parameter
  delay,             \* the delay of the last asyncio.sleep of _with_retry
  err,               \* the message of the last exception the operation raised
  invocations,       \* history: calls of operation() by this _with_retry invocation
  result,            \* what the _with_retry invocation returned
  inflight,          \* the upstream requests issued and not yet answered
  trace,             \* history: one entry per failed call of a stand-alone _with_retry
  elog,              \* history: requests, completions and the pacing sleep of one extraction
  metadata_response, \* extract_invoice_data's local of that name (its .text)
  outcome,           \* what extract_invoice_data returned or raised
  doc,               \* the document the upstream model meant to write
  text,              \* the response text handed to _safe_json_parse
  parsed,            \* what _safe_json_parse(text) returned or raised
  merge,             \* extract_invoice_data's locals metadata, raw_items,
                     \* line_items_obj and final_result (lines 214-224)
  ncm                \* the NcmService object (ncm_map, is_ready), the position
                     \* of each init() call, and what the last read returned

retryVars == <<rpc, attempt, max_retries, delay, err, invocations, result>>
extractVars == <<phase, inflight, elog, metadata_response, outcome>>
repairVars == <<doc, text, parsed>>
vars == <<retryVars, extractVars, trace, repairVars, merge, ncm>>

NoResult == <<"none">>
NoText == <<"none">>
Pending == [ok |-> FALSE, val |-> JNull, stage |-> "pending", len |-> 0]
NoOutcome == [kind |-> "none", val |-> JNull, exc |-> "none", msg |-> NoErr]

\* the repair variables while no text is being repaired
RepairIdle == doc = JNull /\ text = NoText /\ parsed = Pending

\* the largest number of init() calls in one run
NumInitCalls == 2

\* ncm_service.py lines 10-12, 113: the NcmService object as constructed, no
\* init() called yet; writes counts the assignments to ncm_map of line 61
NcmNew ==
  [ncm_map |-> << >>, is_ready |-> FALSE,
   calls |-> [c \in 1..NumInitCalls |-> "idle"], writes |-> 0,
   last |-> [op |-> "none", term |-> << >>, result |-> Value(JNull)]]

\* the retry and extraction variables before anything was called, and the
\* NcmService as constructed
ServiceIdle ==
  /\ ncm = NcmNew
  /\ rpc = "idle" /\ attempt = 0 /\ delay = NoDelay /\ err = NoErr
  /\ invocations = 0 /\ result = NoResult /\ inflight = {} /\ trace = << >>
  /\ elog = << >> /\ metadata_response = NoText /\ outcome = NoOutcome

(***************************************************************************)
(* _with_retry as steps between its awaits                                 *)
(***************************************************************************)

\* lines 126-128: _with_retry(operation) entered with attempt=1; operation()
\* runs up to its await, the upstream request is out
WithRetryEnter ==
  /\ rpc' = "in_flight"
  /\ attempt' = 1
  /\ invocations' = 1
  /\ delay' = NoDelay
  /\ err' = NoErr
  /\ result' = NoResult

\* line 128: operation() returned r; every enclosing _with_retry returns it
OperationReturns(r) ==
  /\ rpc = "in_flight"
  /\ rpc' = "returned"
  /\ result' = r
  /\ UNCHANGED <<attempt, max_retries, delay, err, invocations>>

\* lines 129-148: operation() raised an exception with message msg and the
\* handler decides to sleep before a new attempt
OperationFailsRetry(msg) ==
  /\ rpc = "in_flight"
  /\ ShouldRetry(msg, attempt, max_retries)
  /\ rpc' = "sleeping"
  /\ err' = msg
  /\ delay' = RetryDelay(attempt, msg)
  /\ UNCHANGED <<attempt, max_retries, invocations, result>>

\* lines 129-136, 151-152: operation() raised and the handler re-raises
OperationFailsFinal(msg) ==
  /\ rpc = "in_flight"
  /\ ~ShouldRetry(msg, attempt, max_retries)
  /\ rpc' = "raised"
  /\ err' = msg
  /\ UNCHANGED <<attempt, max_retries, delay, invocations, result>>

\* a retry that calls the operation again with the same attempt number
SleepEndsSameAttempt ==
  /\ rpc = "sleeping"
  /\ rpc' = "in_flight"
  /\ invocations' = invocations + 1
  /\ UNCHANGED <<attempt, max_retries, delay, err, result>>

\* lines 148-149: the sleep is over; _with_retry(operation, attempt + 1, ...)
\* calls operation() again
SleepEnds ==
  /\ rpc = "sleeping"
  /\ rpc' = "in_flight"
  /\ attempt' = attempt + 1
  /\ invocations' = invocations + 1
  /\ UNCHANGED <<max_retries, delay, err, result>>

(***************************************************************************)
(* A stand-alone _with_retry invocation (specification SpecRetry)          *)
(***************************************************************************)

\* the largest max_retries a stand-alone invocation is given
MaxRetriesBound == 3

\* what the wrapped operation returns when it succeeds
SuccessValue == <<"o", "k">>

TraceEntry(msg, slept, d) == [msg |-> msg, slept |-> slept, delay |-> d]

InitRetry ==
  /\ phase = "solo"
  /\ max_retries \in 1..MaxRetriesBound
  /\ ServiceIdle
  /\ RepairIdle
  /\ merge = [metadata |-> JNull, raw_items |-> JNull,
              line_items_obj |-> Raise("unset"), final_result |-> Raise("unset")]

\* _with_retry(operation, max_retries=max_retries) is called
RetryCall ==
  /\ phase = "solo"
  /\ rpc = "idle"
  /\ WithRetryEnter
  /\ inflight' = {"op"}
  /\ UNCHANGED <<max_retries, phase, elog, metadata_response, outcome, trace, repairVars, merge, ncm>>

RetrySucceeds ==
  /\ phase = "solo"
  /\ OperationReturns(SuccessValue)
  /\ inflight' = {}
  /\ UNCHANGED <<phase, elog, metadata_response, outcome, trace, repairVars, merge, ncm>>

RetryFails ==
  /\ phase = "solo"
  /\ \E msg \in ErrorMessages :
       /\ OperationFailsRetry(msg)
       /\ trace' = Append(trace, TraceEntry(msg, TRUE, delay'))
  /\ inflight' = {}
  /\ UNCHANGED <<phase, elog, metadata_response, outcome, repairVars, merge, ncm>>

RetryGivesUp ==
  /\ phase = "solo"
  /\ \E msg \in ErrorMessages :
       /\ OperationFailsFinal(msg)
       /\ trace' = Append(trace, TraceEntry(msg, FALSE, NoDelay))
  /\ inflight' = {}
  /\ UNCHANGED <<phase, elog, metadata_response, outcome, repairVars, merge, ncm>>

RetryWakes ==
  /\ phase = "solo"
  /\ SleepEnds
  /\ inflight' = {"op"}
  /\ UNCHANGED <<phase, elog, metadata_response, outcome, trace, repairVars, merge, ncm>>

NextRetry == RetryCall \/ RetrySucceeds \/ RetryFails \/ RetryGivesUp \/ RetryWakes

SpecRetry == InitRetry /\ [][NextRetry]_vars

(***************************************************************************)
(* GeminiService.extract_invoice_data (specification Spec)                 *)
(***************************************************************************)

\* response texts of the upstream model: an empty text (or None), a header
\* object, a one-row matrix, a matrix cut off in its second row, and prose
Resp ==
  [empty |-> << >>,
   header |->
     <<"{", "\"", "g", "r", "a", "n", "d", "T", "o", "t", "a", "l", "\"", ":",
       "n", "u", "l", "l", "}">>,
   matrix |->
     <<"[", "[", "\"", "a", "\"", ",", "n", "u", "l", "l", ",", "2", "]", "]">>,
   cut_matrix |->
     <<"[", "[", "\"", "a", "\"", ",", "1", "]", ",", "[", "\"", "b">>,
   prose |-> <<"x">>]

ResponseTexts == {Resp[f] : f \in DOMAIN Resp}

\* a response text used as it is, empty or not
TextAsIs(response, default) == response

\* response.text or default
TextOr(response, default) == IF response = << >> THEN default ELSE response

Returned(v) == [kind |-> "returned", val |-> v, exc |-> "none", msg |-> NoErr]

Raised(exc, msg) == [kind |-> "raised", val |-> JNull, exc |-> exc, msg |-> msg]

\* an extraction that carries on with the default of a response it could
\* not parse
ExtractResultLenient(metadata_text, line_items_text) ==
  LET Recovered(p, default) == IF p.ok THEN p.val ELSE default
      ModelBuilt(model) ==
        IF model.ok THEN Returned(model.val) ELSE Raised(model.exc, NoErr)
      RecordMerged(final_result) ==
        IF ~final_result.ok THEN Raised(final_result.exc, NoErr)
        ELSE ModelBuilt(InvoiceData(final_result.val))
  IN RecordMerged(MergeRecord(
       Recovered(SafeJsonParse(TextOr(metadata_text, Default.metadata_text)),
                 JObj(EmptyObj)),
       Recovered(SafeJsonParse(TextOr(line_items_text, Default.line_items_text)),
                 JArr(<< >>))))

\* lines 213-230: parse both responses, merge, post-process, validate
ExtractResult(metadata_text, line_items_text) ==
  LET \* line 226: model is the validated InvoiceData, or the validation's error
      ModelBuilt(model) ==
        IF model.ok THEN Returned(model.val) ELSE Raised(model.exc, NoErr)
      \* lines 224-230: final_result is the merged and post-processed dict
      RecordMerged(final_result) ==
        IF ~final_result.ok THEN Raised(final_result.exc, NoErr)
        ELSE ModelBuilt(InvoiceData(final_result.val))
      \* lines 215-230: raw_items is the parse of the line-items text
      ItemsParsed(metadata, raw_items) ==
        IF ~raw_items.ok THEN Raised("ValueError", NatText(raw_items.len))
        ELSE RecordMerged(MergeRecord(metadata, raw_items.val))
      \* lines 214-230: metadata is the parse of the metadata text
      MetadataParsed(metadata) ==
        IF ~metadata.ok THEN Raised("ValueError", NatText(metadata.len))
        ELSE ItemsParsed(metadata.val,
                         SafeJsonParse(TextOr(line_items_text, Default.line_items_text)))
  IN MetadataParsed(SafeJsonParse(TextOr(metadata_text, Default.metadata_text)))

\* line 207: asyncio.sleep(3.0)
PacingSeconds == 3

Ev(kind, which, seconds) == <<kind, which, seconds>>

\* the request the extraction is busy with
Task == IF phase = "metadata" THEN "Metadata" ELSE "LineItems"

Requesting == phase \in {"metadata", "line_items"}

InitExtract ==
  /\ phase = "idle"
  /\ max_retries = DefaultMaxRetries
  /\ ServiceIdle
  /\ RepairIdle
  /\ merge = [metadata |-> JNull, raw_items |-> JNull,
              line_items_obj |-> Raise("unset"), final_result |-> Raise("unset")]

\* lines 154-203: the metadata request is issued
ExtractCall ==
  /\ phase = "idle"
  /\ phase' = "metadata"
  /\ WithRetryEnter
  /\ max_retries' = DefaultMaxRetries
  /\ inflight' = inflight \cup {"Metadata"}
  /\ elog' = Append(elog, Ev("issue", "Metadata", 0))
  /\ UNCHANGED <<metadata_response, outcome, trace, repairVars, merge, ncm>>

\* a request fails and _with_retry sleeps before the next attempt
UpstreamFails ==
  /\ Requesting
  /\ \E msg \in ErrorMessages : OperationFailsRetry(msg)
  /\ inflight' = inflight \ {Task}
  /\ elog' = Append(elog, Ev("failed", Task, 0))
  /\ UNCHANGED <<phase, metadata_response, outcome, trace, repairVars, merge, ncm>>

\* a request fails for good: lines 151-152, then 228-230
UpstreamFailsFinal ==
  /\ Requesting
  /\ \E msg \in ErrorMessages :
       /\ OperationFailsFinal(msg)
       /\ outcome' = Raised("Exception", msg)
  /\ phase' = "raised"
  /\ inflight' = inflight \ {Task}
  /\ elog' = Append(elog, Ev("failed", Task, 0))
  /\ UNCHANGED <<metadata_response, trace, repairVars, merge, ncm>>

\* the backoff sleep of _with_retry is over: the request is issued again
BackoffEnds ==
  /\ Requesting
  /\ SleepEnds
  /\ inflight' = inflight \cup {Task}
  /\ elog' = Append(elog, Ev("issue", Task, 0))
  /\ UNCHANGED <<phase, metadata_response, outcome, trace, repairVars, merge, ncm>>

\* an extraction that issues the line-items request as soon as the metadata
\* response is in
MetadataReturnsNoPause ==
  /\ phase = "metadata"
  /\ \E r \in ResponseTexts :
       /\ rpc = "in_flight"
       /\ metadata_response' = r
  /\ phase' = "line_items"
  /\ WithRetryEnter
  /\ inflight' = (inflight \ {"Metadata"}) \cup {"LineItems"}
  /\ elog' = elog \o <<Ev("done", "Metadata", 0), Ev("issue", "LineItems", 0)>>
  /\ UNCHANGED <<max_retries, outcome, trace, repairVars, merge, ncm>>

\* an extraction that parses the metadata response as soon as it is in and
\* raises at once when no stage recovers it
MetadataReturnsEagerParse ==
  /\ phase = "metadata"
  /\ \E r \in ResponseTexts :
       /\ OperationReturns(r)
       /\ metadata_response' = r
       /\ LET m == SafeJsonParse(TextOr(r, Default.metadata_text))
          IN IF m.ok
             THEN /\ phase' = "pacing"
                  /\ outcome' = outcome
                  /\ elog' = elog \o <<Ev("done", "Metadata", 0),
                                       Ev("pace", "sleep", PacingSeconds)>>
             ELSE /\ phase' = "raised"
                  /\ outcome' = Raised("ValueError", NatText(m.len))
                  /\ elog' = Append(elog, Ev("done", "Metadata", 0))
  /\ inflight' = inflight \ {"Metadata"}
  /\ UNCHANGED <<trace, repairVars, merge, ncm>>

\* lines 203-207: the metadata response is in; the pacing sleep begins
MetadataReturns ==
  /\ phase = "metadata"
  /\ \E r \in ResponseTexts :
       /\ OperationReturns(r)
       /\ metadata_response' = r
  /\ phase' = "pacing"
  /\ inflight' = inflight \ {"Metadata"}
  /\ elog' = elog \o <<Ev("done", "Metadata", 0), Ev("pace", "sleep", PacingSeconds)>>
  /\ UNCHANGED <<outcome, trace, repairVars, merge, ncm>>

\* lines 207-211: the pacing sleep is over; the line-items request is issued
PacingEnds ==
  /\ phase = "pacing"
  /\ phase' = "line_items"
  /\ WithRetryEnter
  /\ inflight' = inflight \cup {"LineItems"}
  /\ elog' = Append(elog, Ev("issue", "LineItems", 0))
  /\ UNCHANGED <<max_retries, metadata_response, outcome, trace, repairVars, merge, ncm>>

\* lines 211-230: the line-items response is in; parse, merge, return or raise
LineItemsReturns ==
  /\ phase = "line_items"
  /\ \E r \in ResponseTexts :
       /\ OperationReturns(r)
       /\ LET \* lines 226-230: the model is returned or the error raised
              ExtractEnds(final) ==
                /\ outcome' = final
                /\ phase' = IF final.kind = "returned" THEN "returned" ELSE "raised"
          IN ExtractEnds(ExtractResult(metadata_response, r))
       /\ text' = r
  /\ inflight' = inflight \ {"LineItems"}
  /\ elog' = Append(elog, Ev("done", "LineItems", 0))
  /\ UNCHANGED <<metadata_response, trace, doc, parsed, merge, ncm>>

Next ==
  \/ ExtractCall
  \/ UpstreamFails
  \/ UpstreamFailsFinal
  \/ BackoffEnds
  \/ MetadataReturns
  \/ PacingEnds
  \/ LineItemsReturns

Spec == InitExtract /\ [][Next]_vars

\* the event loop under the assumption that every awaited upstream call
\* comes back, with a response or an error (lines 174, 128), and that every
\* awaited sleep ends (lines 148, 207)
FairSpec ==
  /\ Spec
  /\ WF_vars(UpstreamFails \/ UpstreamFailsFinal \/ MetadataReturns \/ LineItemsReturns)
  /\ WF_vars(BackoffEnds \/ PacingEnds)

(***************************************************************************)
(* _safe_json_parse on the texts an upstream model writes (specification   *)
(* SpecRepair): a document is serialized, the text reaches the parser      *)
(* whole, truncated by the token limit, wrapped in a code fence or with a  *)
(* trailing comma, and the value the parser returned may be serialized and *)
(* parsed again                                                            *)
(***************************************************************************)

\* the most rows of a matrix, columns of a row and keys of an object
MaxRows == 2
MaxCols == 2
MaxKeys == 2

\* the documents: cells, rows of cells, matrices of rows and objects
Docs ==
  LET \* the values of a column: a number, a word, and a text that holds
      \* commas before a bracket
      Cells == {JNum(1, 0, "int"), JStr(<<"a">>), JStr(<<",", ",", "]">>)}
      SeqsUpTo(S, n) == UNION {[1..k -> S] : k \in 1..n}
      Rows == {JArr(r) : r \in SeqsUpTo(Cells, MaxCols)}
      Matrices == {JArr(m) : m \in SeqsUpTo(Rows, MaxRows)}
      KeyChars == <<"a", "b", "c", "d">>
      \* objects whose values are cells or rows of one column
      Objects ==
        {JObj(f) : f \in UNION {[{<<KeyChars[i]>> : i \in 1..k} ->
                                   Cells \cup {JArr(<<c>>) : c \in Cells}] :
                                k \in 1..MaxKeys}}
  IN Cells \cup Rows \cup Matrices \cup Objects

\* a str between quotes, with the quote and the backslash escaped
QuotedText(cs) ==
  LET RECURSIVE Escaped(_)
      Escaped(rest) ==
        IF rest = << >> THEN << >>
        ELSE (IF Head(rest) \in {"\"", "\\"} THEN <<"\\", Head(rest)>>
              ELSE <<Head(rest)>>) \o Escaped(Tail(rest))
  IN <<"\"">> \o Escaped(cs) \o <<"\"">>

\* the compact JSON text of a value (keys in one fixed order)
RECURSIVE Serialize(_)
Serialize(v) ==
  LET RECURSIVE Items(_)
      Items(items) ==
        IF items = << >> THEN << >>
        ELSE IF Len(items) = 1 THEN Serialize(items[1])
        ELSE Serialize(items[1]) \o <<",">> \o Items(Tail(items))
      RECURSIVE Members(_)
      Members(keys) ==
        LET k == CHOOSE x \in keys : TRUE
        IN IF keys = {} THEN << >>
           ELSE QuotedText(k) \o <<":">> \o Serialize(v.v[k])
                  \o (IF keys = {k} THEN << >> ELSE <<",">> \o Members(keys \ {k}))
  IN CASE v.t = "null" -> Lit.null
       [] v.t = "bool" -> IF v = JTrue THEN Lit.true ELSE Lit.false
       [] v.t = "num" -> NumText(v.v)
       [] v.t = "special" -> IF v.v[1] = "-Infinity" THEN <<"-">> \o Lit.Infinity
                             ELSE IF v.v[1] = "NaN" THEN Lit.NaN ELSE Lit.Infinity
       [] v.t = "str" -> QuotedText(v.v)
       [] v.t = "arr" -> <<"[">> \o Items(v.v) \o <<"]">>
       [] v.t = "obj" -> <<"{">> \o Members(DOMAIN v.v) \o <<"}">>

InitRepair ==
  /\ phase = "repair"
  /\ max_retries = DefaultMaxRetries
  /\ ServiceIdle
  /\ merge = [metadata |-> JNull, raw_items |-> JNull,
              line_items_obj |-> Raise("unset"), final_result |-> Raise("unset")]
  /\ doc \in Docs
  /\ text = Serialize(doc)
  /\ parsed = Pending

\* the text is still the whole serialization and has not been parsed
Untouched == phase = "repair" /\ parsed = Pending /\ text = Serialize(doc)

\* the token limit cuts the response
Truncate ==
  /\ Untouched
  /\ \E n \in 1..(Len(text) - 1) : text' = SubSeq(text, 1, n)
  /\ UNCHANGED <<retryVars, extractVars, trace, doc, parsed, merge, ncm>>

\* the response comes in a fenced code block
WrapInFence ==
  /\ Untouched
  /\ text' = FenceJson \o <<"\n">> \o text \o <<"\n">> \o Fence
  /\ UNCHANGED <<retryVars, extractVars, trace, doc, parsed, merge, ncm>>

\* the response has a comma before its last closing bracket
AddTrailingComma ==
  /\ Untouched
  /\ doc.t \in {"arr", "obj"}
  /\ text' = SubSeq(text, 1, Len(text) - 1) \o <<",", text[Len(text)]>>
  /\ UNCHANGED <<retryVars, extractVars, trace, doc, parsed, merge, ncm>>

\* the response carries text that is not part of the document: commentary
\* before it, or closing brackets too many after it (one, or as many as the
\* truncation fallback keeps cut points)
StrayText ==
  /\ Untouched
  /\ text' \in {<<"o", "k", ":", " ">> \o text, text \o <<"]">>, text \o <<"}">>,
                text \o [n \in 1..MaxCandidates |-> "]"]}
  /\ UNCHANGED <<retryVars, extractVars, trace, doc, parsed, merge, ncm>>

\* the response is escaped once too often: every quote of the document's
\* text comes with a backslash before it, which puts backslashes outside
\* the string literals
OverEscape ==
  /\ Untouched
  /\ \E n \in 1..Len(text) : text[n] = "\""
  /\ LET RECURSIVE Escaped(_)
         Escaped(rest) ==
           IF rest = << >> THEN << >>
           ELSE (IF Head(rest) = "\"" THEN <<"\\", "\"">> ELSE <<Head(rest)>>)
                  \o Escaped(Tail(rest))
     IN text' = Escaped(text)
  /\ UNCHANGED <<retryVars, extractVars, trace, doc, parsed, merge, ncm>>

\* _safe_json_parse(text) is called: lines 17-124
Parse ==
  /\ phase \in {"repair", "reparse"}
  /\ parsed = Pending
  /\ parsed' = SafeJsonParse(text)
  /\ UNCHANGED <<retryVars, extractVars, trace, doc, text, merge, ncm>>

\* the value the parser returned is serialized to be parsed again
Reserialize ==
  /\ phase = "repair"
  /\ parsed.ok
  /\ phase' = "reparse"
  /\ doc' = parsed.val
  /\ text' = Serialize(parsed.val)
  /\ parsed' = Pending
  /\ UNCHANGED <<retryVars, inflight, elog, metadata_response, outcome, trace, merge, ncm>>

NextRepair ==
  \/ Truncate
  \/ WrapInFence
  \/ AddTrailingComma
  \/ StrayText
  \/ OverEscape
  \/ Parse
  \/ Reserialize

SpecRepair == InitRepair /\ [][NextRepair]_vars

(***************************************************************************)
(* The merge of extract_invoice_data, lines 218-226, on parsed values      *)
(* (specification SpecMerge): the metadata value and the line-items value  *)
(* are drawn from the shapes the two prompts can be answered with          *)
(***************************************************************************)

\* the most columns of a positional row (the prompt asks for 9)
MaxRowLen == 10

InitMerge ==
  LET Absent == Mk("absent", << >>)
      S(c) == JStr(<<c>>)
      \* the dict of the keys whose value is not Absent
      Obj(keys, vals) ==
        JObj([k \in {keys[n] : n \in {m \in 1..Len(keys) : vals[m].t # "absent"}} |->
                vals[CHOOSE n \in 1..Len(keys) : keys[n] = k]])
      \* column i of three rows: the well-formed one, one of falsy values and
      \* numbers written as strings, one with values of unexpected type
      Good(i) ==
        CASE i = 0 -> S("W") [] i = 1 -> JNull [] i = 2 -> JNum(1, 1, "int")
          [] i = 3 -> S("P") [] i = 4 -> JNum(5, 0, "float")
          [] i = 5 -> JNum(5, 1, "float") [] i = 6 -> JNum(1, 0, "float")
          [] i = 7 -> JNull [] i = 8 -> S("8") [] i > 8 -> S("x")
      Falsy(i) ==
        CASE i = 0 -> JNull [] i = 1 -> JStr(<< >>) [] i = 2 -> S("4")
          [] i = 3 -> JStr(<< >>) [] i = 4 -> JNum(0, 0, "int") [] i = 5 -> JNull
          [] i = 6 -> JStr(<<"1", ".", "5">>) [] i = 7 -> JNum(0, 0, "int")
          [] i = 8 -> JFalse [] i > 8 -> JNull
      Odd(i) ==
        CASE i = 0 -> JNum(7, 0, "int") [] i = 1 -> JNum(2, 0, "int")
          [] i = 2 -> JStr(<<"a", "b", "c">>) [] i = 3 -> JTrue
          [] i = 4 -> JArr(<< >>) [] i = 5 -> S("x") [] i = 6 -> JArr(<<S("x")>>)
          [] i = 7 -> JNum(3, 0, "int") [] i = 8 -> JNum(8, 0, "int")
          [] i > 8 -> JNull
      PositionalRows ==
        {JArr([i \in 1..n |-> Good(i - 1)]) : n \in 0..MaxRowLen}
          \cup {JArr([i \in 1..n |-> Falsy(i - 1)]) : n \in 0..MaxRowLen}
          \cup {JArr([i \in 1..n |-> Odd(i - 1)]) : n \in 0..MaxRowLen}
      FullRow == JArr([i \in 1..9 |-> Good(i - 1)])
      \* already-keyed items with any subset of description, quantity, netWeight
      \* and unitNetWeight
      KeyedItems ==
        {Obj(<<K.description, K.unitMeasure, K.quantity, K.netWeight, K.unitNetWeight>>, v) :
           v \in {S("W"), Absent} \X {S("P")}
                   \X {Absent, JNull, JNum(0, 0, "int"), JNum(4, 0, "int"),
                       JNum(-2, 0, "int"), JNum(3, 0, "int"), JStr(<<"a", "b", "c">>)}
                   \X {Absent, JNum(0, 0, "int"), JNum(3, 0, "int"), JNum(2, 0, "int"),
                       JStr(<<"1", ".", "5">>)}
                   \X {Absent, JNull, JNum(25, -2, "float"), JNum(12346, -5, "float")}}
      Item == Obj(<<K.description, K.unitMeasure>>, <<S("W"), S("P")>>)
      Wrap(v) == JObj((K.lineItems :> v))
      LineItemValues ==
        {JArr(<<r>>) : r \in PositionalRows}
          \cup {JArr(<<r1, r2>>) : r1, r2 \in {FullRow, JArr(<< >>), JArr(<<S("W")>>)}}
          \cup {JArr(<<it>>) : it \in KeyedItems}
          \cup {JArr(<<Item, Item>>), JArr(<<FullRow, Item>>), JArr(<<Item, FullRow>>),
                JArr(<<FullRow, JNum(5, 0, "int")>>),
                JArr(<<JNum(1, 0, "int"), JNum(2, 0, "int")>>), JArr(<<JNull>>),
                JArr(<< >>), JNull, JTrue, JNum(5, 0, "int"), S("s"),
                JObj(EmptyObj), JObj((<<"a">> :> JNum(1, 0, "int")))}
          \cup {Wrap(v) : v \in {JNull, JArr(<< >>), JArr(<<Item>>), JArr(<<FullRow>>),
                                S("s"), JNum(5, 0, "int"), JObj(EmptyObj)}}
      \* header objects with any subset of four keys, and values that are no
      \* object
      MetadataValues ==
        {Obj(<<K.grandTotal, K.totalPackages, K.invoiceNumber, K.lineItems>>, v) :
           v \in {Absent, JNull, JNum(5, 0, "int"), JStr(<<"7", ".", "5">>),
                  JStr(<<"a", "b", "c">>), JSpecial("NaN"), JTrue, JArr(<< >>)}
                   \X {Absent, JNull, JNum(3, 0, "int"), JNum(25, -1, "float")}
                   \X {Absent, JNull, S("X"), JNum(12, 0, "int")}
                   \X {Absent, JNull, JArr(<<Item>>), S("s")}}
          \cup {JArr(<< >>), JNull}
      Header == Obj(<<K.grandTotal, K.invoiceNumber>>, <<JNull, S("X")>>)
  IN /\ phase = "merge"
     /\ max_retries = DefaultMaxRetries
     /\ ServiceIdle
     /\ RepairIdle
     /\ \E m \in MetadataValues, r \in LineItemValues :
          /\ \/ m \in {Header, JObj(EmptyObj)}
             \/ r \in {JArr(<<FullRow>>), JArr(<< >>), JArr(<<Item>>)}
          /\ merge = [metadata |-> m, raw_items |-> r,
                      line_items_obj |-> Raise("unset"),
                      final_result |-> Raise("unset")]

\* line 218: line_items_obj = self._parse_line_items(raw_items); what it
\* raises ends the extraction (lines 228-230)
ParseRows ==
  /\ phase = "merge"
  /\ LET RowsParsed(items) ==
           /\ merge' = [merge EXCEPT !.line_items_obj = items]
           /\ phase' = IF items.ok THEN "rows" ELSE "raised"
           /\ outcome' = IF items.ok THEN outcome ELSE Raised(items.exc, NoErr)
     IN RowsParsed(ParseLineItems(merge.raw_items))
  /\ UNCHANGED <<retryVars, inflight, elog, metadata_response, trace, repairVars, ncm>>

\* lines 221-224: combined_data, then _post_process_invoice_data
PostProcess ==
  /\ phase = "rows"
  /\ LET Processed(final) ==
           /\ merge' = [merge EXCEPT !.final_result = final]
           /\ phase' = IF final.ok THEN "merged" ELSE "raised"
           /\ outcome' = IF final.ok THEN outcome ELSE Raised(final.exc, NoErr)
     IN Processed(
          IF merge.metadata.t # "obj" THEN Raise("TypeError")
          ELSE PostProcessInvoiceData(
                 ObjPut(merge.metadata.v, K.lineItems, merge.line_items_obj.val)))
  /\ UNCHANGED <<retryVars, inflight, elog, metadata_response, trace, repairVars, ncm>>

\* line 226: return InvoiceData(**final_result)
BuildModel ==
  /\ phase = "merged"
  /\ LET Built(model) ==
           /\ phase' = IF model.ok THEN "returned" ELSE "raised"
           /\ outcome' = IF model.ok THEN Returned(model.val)
                         ELSE Raised(model.exc, NoErr)
     IN Built(InvoiceData(merge.final_result.val))
  /\ UNCHANGED <<retryVars, inflight, elog, metadata_response, trace, repairVars, merge, ncm>>

NextMerge ==
  \/ ParseRows
  \/ PostProcess
  \/ BuildModel

SpecMerge == InitMerge /\ [][NextMerge]_vars

(***************************************************************************)
(* NcmService (ncm_service.py; specification SpecNcm): init() calls that   *)
(* may overlap at the download they await, and the reads of the endpoints  *)
(* of app.py.  A dict is the sequence of its <<key, value>> pairs in       *)
(* insertion order                                                         *)
(***************************************************************************)

\* the keys _build_map reads and the keys and level names the reads write
NcmKeys ==
  [Nomenclaturas |-> <<"N", "o", "m", "e", "n", "c", "l", "a", "t", "u", "r", "a", "s">>,
   Codigo |-> <<"C", "o", "d", "i", "g", "o">>,
   Descricao |-> <<"D", "e", "s", "c", "r", "i", "c", "a", "o">>,
   code |-> <<"c", "o", "d", "e">>,
   description |-> <<"d", "e", "s", "c", "r", "i", "p", "t", "i", "o", "n">>,
   level |-> <<"l", "e", "v", "e", "l">>,
   Capitulo |-> <<"C", "a", "p", "í", "t", "u", "l", "o">>,
   Posicao |-> <<"P", "o", "s", "i", "ç", "ã", "o">>,
   Subposicao |-> <<"S", "u", "b", "p", "o", "s", "i", "ç", "ã", "o">>,
   Item |-> <<"I", "t", "e", "m">>]

\* code.replace(".", "").strip()
CleanCode(code) == Strip(SelectSeq(code, LAMBDA c : c # "."))

\* d.get(key): the value of a str key, None when the dict has no such key
DictGet(d, key) ==
  IF \E n \in 1..Len(d) : d[n][1].t = "str" /\ d[n][1].v = key
  THEN d[CHOOSE n \in 1..Len(d) : d[n][1].t = "str" /\ d[n][1].v = key][2]
  ELSE JNull

\* lines 44-61: the dict _build_map assigns to self.ncm_map, or the exception
\* it raises before the assignment
build_map(data) ==
  LET SameKey(a, b) == a.t = b.t /\ a.v = b.v
      \* new_map[key] = val
      DictSet(d, key, val) ==
        IF \E n \in 1..Len(d) : SameKey(d[n][1], key)
        THEN [n \in 1..Len(d) |-> IF SameKey(d[n][1], key) THEN <<key, val>> ELSE d[n]]
        ELSE Append(d, <<key, val>>)
      \* item.get(key, "")
      Field(item, key) == IF key \in DOMAIN item.v THEN item.v[key] ELSE JStr(<< >>)
      \* lines 49-53
      RECURSIVE Official(_, _)
      Official(items, new_map) ==
        IF items = << >> THEN Value(new_map)
        ELSE IF items[1].t # "obj" THEN Raise("AttributeError")
        ELSE IF Field(items[1], NcmKeys.Codigo).t # "str" THEN Raise("AttributeError")
        ELSE IF Field(items[1], NcmKeys.Descricao).t # "str" THEN Raise("AttributeError")
        ELSE IF CleanCode(Field(items[1], NcmKeys.Codigo).v) = << >>
          THEN Official(Tail(items), new_map)
        ELSE Official(Tail(items),
               DictSet(new_map, JStr(CleanCode(Field(items[1], NcmKeys.Codigo).v)),
                       JStr(Strip(Field(items[1], NcmKeys.Descricao).v))))
      \* line 49: for item in data["Nomenclaturas"]
      OfficialOver(v) ==
        CASE v.t = "arr" -> Official(v.v, << >>)
          [] v.t \in {"str", "obj"} ->
               IF Truthy(v) THEN Raise("AttributeError") ELSE Value(<< >>)
          [] v.t \in {"null", "bool", "num", "special"} -> Raise("TypeError")
      \* lines 57-59
      RECURSIVE Minified(_, _)
      Minified(items, new_map) ==
        IF items = << >> THEN Value(new_map)
        ELSE IF PyLen(items[1]) = -1 THEN Raise("TypeError")
        ELSE IF PyLen(items[1]) < 2 THEN Minified(Tail(items), new_map)
        ELSE IF items[1].t = "obj" THEN Raise("KeyError")
        ELSE IF Cell(items[1], 0).t \in {"arr", "obj"} THEN Raise("TypeError")
        ELSE Minified(Tail(items),
               DictSet(new_map, Cell(items[1], 0), Cell(items[1], 1)))
  IN IF data.t = "obj" /\ NcmKeys.Nomenclaturas \in DOMAIN data.v
       THEN OfficialOver(data.v[NcmKeys.Nomenclaturas])
     ELSE IF data.t = "arr" /\ data.v # << >> /\ data.v[1].t = "arr"
       THEN Minified(data.v, << >>)
     ELSE Value(<< >>)

\* line 69
SearchLimit == 20

\* lines 63-78
search(ncm_map, term) ==
  LET term_lower == [n \in 1..Len(term) |-> Lower(term[n])]
      term_clean == CleanCode(term)
      \* sub in s, for two str
      In(sub, str) == sub = << >> \/ Contains(str, sub)
      LowerOf(str) == [n \in 1..Len(str) |-> Lower(str[n])]
      Hit(code, desc) ==
        JObj((NcmKeys.code :> code) @@ (NcmKeys.description :> desc))
      RECURSIVE Scan(_, _)
      Scan(n, results) ==
        IF n > Len(ncm_map) THEN Value(JArr(results))
        ELSE IF ncm_map[n][1].t # "str" THEN Raise("TypeError")
        ELSE IF In(term_clean, ncm_map[n][1].v)
          THEN IF Len(results) + 1 >= SearchLimit
               THEN Value(JArr(Append(results, Hit(ncm_map[n][1], ncm_map[n][2]))))
               ELSE Scan(n + 1, Append(results, Hit(ncm_map[n][1], ncm_map[n][2])))
        ELSE IF ncm_map[n][2].t # "str" THEN Raise("AttributeError")
        ELSE IF In(term_lower, LowerOf(ncm_map[n][2].v))
          THEN IF Len(results) + 1 >= SearchLimit
               THEN Value(JArr(Append(results, Hit(ncm_map[n][1], ncm_map[n][2]))))
               ELSE Scan(n + 1, Append(results, Hit(ncm_map[n][1], ncm_map[n][2])))
        ELSE Scan(n + 1, results)
  IN Scan(1, << >>)

\* lines 80-82
get_description(ncm_map, code) == Value(DictGet(ncm_map, CleanCode(code)))

\* lines 84-111
get_hierarchy(ncm_map, code) ==
  LET clean_code == CleanCode(code)
      levels_map ==
        (2 :> NcmKeys.Capitulo) @@ (4 :> NcmKeys.Posicao)
          @@ (6 :> NcmKeys.Subposicao) @@ (8 :> NcmKeys.Item)
      Level(length) ==
        JObj((NcmKeys.code :> JStr(SubSeq(clean_code, 1, length)))
             @@ (NcmKeys.description :> DictGet(ncm_map, SubSeq(clean_code, 1, length)))
             @@ (NcmKeys.level :> JStr(levels_map[length])))
      RECURSIVE Walk(_, _)
      Walk(length, hierarchy) ==
        IF length > Len(clean_code) THEN Value(JArr(hierarchy))
        ELSE IF /\ length \in DOMAIN levels_map
                /\ Truthy(DictGet(ncm_map, SubSeq(clean_code, 1, length)))
          THEN Walk(length + 1, Append(hierarchy, Level(length)))
        ELSE Walk(length + 1, hierarchy)
  IN Walk(1, << >>)

\* the terms and codes the endpoints are called with
Terms ==
  << << >>, <<"0", "1">>, <<"0", "1", ".", "0", "2">>, <<" ", "H">>, <<"z">> >>

InitNcm ==
  /\ phase = "ncm"
  /\ max_retries = DefaultMaxRetries
  /\ ServiceIdle
  /\ RepairIdle
  /\ merge = [metadata |-> JNull, raw_items |-> JNull,
              line_items_obj |-> Raise("unset"), final_result |-> Raise("unset")]

\* lines 15-23: init() is called; it returns at once when the service is
\* ready, else it hands _download_data to the executor and awaits it
InitCall(c) ==
  /\ phase = "ncm"
  /\ ncm.calls[c] = "idle"
  /\ ncm' = [ncm EXCEPT !.calls[c] = IF ncm.is_ready THEN "done" ELSE "downloading"]
  /\ UNCHANGED <<retryVars, extractVars, trace, repairVars, merge>>

\* lines 23-33: the download awaited by call c is back with what
\* _download_data returned (None when it failed, lines 35-42); an exception
\* of _build_map is logged (lines 32-33)
DownloadReturns(c) ==
  /\ phase = "ncm"
  /\ ncm.calls[c] = "downloading"
  /\ LET S(str) == JStr(str)
         Entry(code, desc) ==
           JObj((NcmKeys.Codigo :> S(code)) @@ (NcmKeys.Descricao :> S(desc)))
         Official(items) == JObj((NcmKeys.Nomenclaturas :> JArr(items)))
         \* what the data URL may answer with
         Downloads ==
           << JNull,
              Official(<<Entry(<<"0", "1">>, <<"A", "b">>),
                         Entry(<<"0", "1", ".", "0", "2", " ">>, <<" ", "h", " ">>),
                         JObj((NcmKeys.Descricao :> S(<<"x">>)))>>),
              JArr(<<JArr(<<S(<<"0", "1">>), S(<<"Z", "z">>)>>),
                     JArr(<<S(<<"0", "1", "0", "2">>), S(<<"H">>)>>),
                     JArr(<<S(<<"x">>)>>)>>),
              JObj((<<"x">> :> JNum(1, 0, "int"))),
              JArr(<< >>),
              Official(<<JObj((NcmKeys.Codigo :> JNull))>>),
              JArr(<<JArr(<<S(<<"0", "1">>), S(<<"A", "b">>)>>), JNum(5, 0, "int")>>) >>
         Done(data, new_map) ==
           ncm' = IF Truthy(data) /\ new_map.ok
                  THEN [ncm EXCEPT !.ncm_map = new_map.val, !.is_ready = TRUE,
                                   !.writes = @ + 1, !.calls[c] = "done"]
                  ELSE [ncm EXCEPT !.calls[c] = "done"]
     IN \E n \in 1..Len(Downloads) : Done(Downloads[n], build_map(Downloads[n]))
  /\ UNCHANGED <<retryVars, extractVars, trace, repairVars, merge>>

\* app.py lines 50-52: GET /api/ncm/search
Search ==
  /\ phase = "ncm"
  /\ \E n \in 1..Len(Terms) :
       ncm' = [ncm EXCEPT !.last = [op |-> "search", term |-> Terms[n],
                                    result |-> search(ncm.ncm_map, Terms[n])]]
  /\ UNCHANGED <<retryVars, extractVars, trace, repairVars, merge>>

\* app.py lines 54-59: GET /api/ncm/{code}
GetDescription ==
  /\ phase = "ncm"
  /\ \E n \in 1..Len(Terms) :
       ncm' = [ncm EXCEPT !.last = [op |-> "get_description", term |-> Terms[n],
                                    result |-> get_description(ncm.ncm_map, Terms[n])]]
  /\ UNCHANGED <<retryVars, extractVars, trace, repairVars, merge>>

\* debug_ncm.py line 31: get_hierarchy(code)
GetHierarchy ==
  /\ phase = "ncm"
  /\ \E n \in 1..Len(Terms) :
       ncm' = [ncm EXCEPT !.last = [op |-> "get_hierarchy", term |-> Terms[n],
                                    result |-> get_hierarchy(ncm.ncm_map, Terms[n])]]
  /\ UNCHANGED <<retryVars, extractVars, trace, repairVars, merge>>

NextNcm ==
  \/ \E c \in 1..NumInitCalls : InitCall(c)
  \/ \E c \in 1..NumInitCalls : DownloadReturns(c)
  \/ Search
  \/ GetDescription
  \/ GetHierarchy

SpecNcm == InitNcm /\ [][NextNcm]_vars

(***************************************************************************)
(* Claims about _with_retry (checked under SpecRetry)                      *)
(***************************************************************************)

\* the specification's classification: the message carries one of the markers
\* 429, RESOURCE_EXHAUSTED, 503, UNAVAILABLE, overloaded
MarkedTransient(msg) ==
  msg \in {Msg.rate, Msg.unavailable, Msg.exhausted, Msg.overloaded, Msg.quota, Msg.busy}

AllMarked == \A n \in 1..Len(trace) : MarkedTransient(trace[n].msg)

Sleeps == Cardinality({n \in 1..Len(trace) : trace[n].slept})

\* C1: an operation that fails k times in a row with a transient error and
\* then succeeds (k < max attempts) returns the success value after exactly k
\* delays and k + 1 invocations; an operation whose first failure carries no
\* transient marker propagates that error after one invocation and no delay.
C1_RetryThenSuccess ==
  /\ (rpc = "returned" /\ AllMarked /\ Len(trace) < max_retries)
       => /\ result = SuccessValue
          /\ Sleeps = Len(trace)
          /\ invocations = Len(trace) + 1
  /\ (Len(trace) >= 1 /\ ~MarkedTransient(trace[1].msg))
       => /\ rpc = "raised"
          /\ err = trace[1].msg
          /\ invocations = 1
          /\ Sleeps = 0
          /\ Len(trace) = 1

\* two failures marked 429, then success
C1_Witness ==
  /\ rpc = "returned"
  /\ max_retries = 3
  /\ Len(trace) = 2
  /\ trace[1].msg = Msg.rate
  /\ trace[2].msg = Msg.rate

\* C2 as stated: with an operation that fails with a transient error on every
\* call, the operation is invoked at most max attempts times in total and no
\* invocation happens with an attempt counter beyond max attempts.
C2_AtMostMaxInvocations ==
  phase = "solo" => (invocations <= max_retries /\ attempt <= max_retries)

\* C2 amended: the operation is invoked at most max_retries + 1 times (the
\* first call and max_retries retries), the attempt counter never exceeds
\* max_retries + 1, and an operation that fails with a transient error on
\* every call has its last error re-raised after exactly max_retries + 1 calls.
C2_AtMostMaxRetriesPlusOne ==
  phase = "solo" =>
    /\ invocations <= max_retries + 1
    /\ attempt <= max_retries + 1
    /\ (rpc = "raised" /\ AllMarked)
         => /\ invocations = max_retries + 1
            /\ Len(trace) = max_retries + 1
            /\ err = trace[Len(trace)].msg

C2_Witness ==
  /\ rpc = "raised"
  /\ AllMarked
  /\ max_retries >= 2
  /\ invocations = max_retries + 1

\* C3: a failed call is followed by a sleep and a new call only if its message
\* carries a transient marker; every other error is re-raised at once, with no
\* sleep and no further call, and the error raised is the operation's.
C3_OnlyTransientRetried ==
  \A n \in 1..Len(trace) :
    /\ trace[n].slept => MarkedTransient(trace[n].msg)
    /\ ~MarkedTransient(trace[n].msg)
         => /\ n = Len(trace)
            /\ ~trace[n].slept
            /\ rpc = "raised"
            /\ err = trace[n].msg
            /\ invocations = n

\* a fatal error at the second attempt, after a retried first one
C3_Witness ==
  /\ rpc = "raised"
  /\ Len(trace) = 2
  /\ trace[1].slept
  /\ trace[2].msg = Msg.capital

\* the delay the specification gives the n-th failed attempt
ExpectedDelay(n, msg) ==
  IF msg = Msg.quota THEN <<7, 0>>
  ELSE IF msg = Msg.busy THEN <<15, -1>>
  ELSE NormNum(2 * Pow(2, n - 1), 0)

\* C4: the delay slept after the n-th failed attempt is 2 * 2^(n-1) seconds
\* unless that attempt's message says "retry in <X>s", and then it is X for
\* that attempt only.
C4_DelayPerAttempt ==
  \A n \in 1..Len(trace) :
    trace[n].slept => trace[n].delay = ExpectedDelay(n, trace[n].msg)

\* an explicit 7 s, then the computed 4 s and 8 s of attempts 2 and 3
C4_Witness ==
  /\ Len(trace) >= 3
  /\ trace[1].msg = Msg.quota /\ trace[1].delay = <<7, 0>>
  /\ trace[2].msg = Msg.rate /\ trace[2].delay = <<4, 0>>
  /\ trace[3].msg = Msg.overloaded /\ trace[3].delay = <<8, 0>>

(***************************************************************************)
(* Claims about extract_invoice_data (checked under Spec)                  *)
(***************************************************************************)

\* C5: within one extraction every line-items request comes after the
\* successful completion of the metadata request and after the 3-second pacing
\* sleep that follows it, no metadata request comes after that completion, and
\* the two requests are never in flight together
C5_MetadataThenPaceThenLineItems ==
  /\ Cardinality(inflight) <= 1
  /\ \A i \in 1..Len(elog) :
       elog[i] = <<"issue", "LineItems", 0>> =>
         \E j \in 1..(i - 1) :
           /\ elog[j] = <<"done", "Metadata", 0>>
           /\ \E k \in (j + 1)..(i - 1) : elog[k] = <<"pace", "sleep", 3>>
           /\ \A n \in (j + 1)..Len(elog) : elog[n][2] # "Metadata"

\* the line-items request is in flight after a metadata request that had to
\* be tried twice
C5_Witness ==
  /\ phase = "line_items"
  /\ inflight = {"LineItems"}
  /\ \E i \in 1..Len(elog) : elog[i] = <<"failed", "Metadata", 0>>

(***************************************************************************)
(* Claims about _safe_json_parse (checked under SpecRepair)                *)
(***************************************************************************)

\* C6: a text that is valid JSON is repaired to exactly the value json.loads
\* gives for it, whatever its string literals hold
C6_ValidJsonParsedStrictly ==
  (parsed # Pending /\ JsonLoads(text).ok) =>
    (parsed.ok /\ parsed.val = JsonLoads(text).val)

\* no str inside v holds a comma, a bracket, a brace or a backquote
RECURSIVE PlainValue(_)
PlainValue(v) ==
  CASE v.t = "str" ->
         \A n \in 1..Len(v.v) : v.v[n] \notin {",", "[", "]", "{", "}", Backquote}
    [] v.t = "arr" -> \A n \in 1..Len(v.v) : PlainValue(v.v[n])
    [] v.t = "obj" -> \A k \in DOMAIN v.v : PlainValue(v.v[k])
    [] v.t \in {"null", "bool", "num", "special"} -> TRUE

\* t is full without one or more of its final closing brackets
CutOffClosers(full, t) ==
  /\ t # << >>
  /\ Len(t) < Len(full)
  /\ t = SubSeq(full, 1, Len(t))
  /\ \A n \in (Len(t) + 1)..Len(full) : full[n] \in {"]", "}"}

\* C7: the serialization of an object or array (here one whose strings hold
\* no comma or bracket) with its final closing brackets cut off is repaired
\* to the value of the whole document
C7_CutOffClosersRestored ==
  ( /\ phase = "repair"
    /\ parsed # Pending
    /\ doc.t \in {"arr", "obj"}
    /\ PlainValue(doc)
    /\ CutOffClosers(Serialize(doc), text) ) =>
    (parsed.ok /\ parsed.val = doc)

\* the text ends inside a row of the matrix doc: after the row's opening
\* bracket and before its closing one
CutMidRow ==
  /\ doc.t = "arr" /\ doc.v # << >> /\ doc.v[1].t = "arr"
  /\ Len(text) < Len(Serialize(doc))
  /\ text = SubSeq(Serialize(doc), 1, Len(text))
  /\ \E k \in 0..(Len(doc.v) - 1) :
       /\ Len(text) >= Len(Serialize(JArr(SubSeq(doc.v, 1, k)))) + (IF k = 0 THEN 0 ELSE 1)
       /\ Len(text) < Len(Serialize(JArr(SubSeq(doc.v, 1, k + 1)))) - 1

\* C8: of a matrix text cut in the middle of a row (a matrix whose strings
\* hold no comma or bracket) the repair returns rows of the document only:
\* no row with fewer columns and no shortened field
C8_NoFabricatedRow ==
  (phase = "repair" /\ parsed.ok /\ PlainValue(doc) /\ CutMidRow) =>
    /\ parsed.val.t = "arr"
    /\ Len(parsed.val.v) <= Len(doc.v)
    /\ \A n \in 1..Len(parsed.val.v) : parsed.val.v[n] = doc.v[n]

\* the contents of the terminated string literals of a JSON text, as written
StringLiterals(s) ==
  LET RECURSIVE Scan(_, _, _, _)
      Scan(i, in_string, cur, acc) ==
        IF i > Len(s) THEN acc
        ELSE IF ~in_string
          THEN Scan(i + 1, s[i] = "\"", << >>, acc)
        ELSE IF s[i] = "\\" /\ i < Len(s)
          THEN Scan(i + 2, TRUE, cur \o <<s[i], s[i + 1]>>, acc)
        ELSE IF s[i] = "\""
          THEN Scan(i + 1, FALSE, << >>, Append(acc, cur))
        ELSE Scan(i + 1, TRUE, Append(cur, s[i]), acc)
  IN Scan(1, FALSE, << >>, << >>)

\* C9: the trailing-comma fix leaves every string literal as it was (stated
\* for the texts whose envelope is valid JSON)
C9_StringLiteralsUntouched ==
  (parsed # Pending /\ JsonLoads(Envelope(text)).ok) =>
    StringLiterals(Clean(text)) = StringLiterals(Envelope(text))

\* C10: the value the repair returned, serialized and repaired again, comes
\* back as the same value
C10_RepairIdempotent ==
  (phase = "reparse" /\ parsed # Pending) => (parsed.ok /\ parsed.val = doc)

\* the part of a truncated text that the cleaning removed: what follows the
\* cleaned text in it
Discarded == SubSeq(text, Len(Clean(text)) + 1, Len(text))

\* C11: the stages run in order, each only after the one before it failed
\* to parse, and nothing of the document is discarded before the balancer
\* has been tried: of a document cut off by the token limit (one whose
\* strings hold no comma or bracket) the balancer and the truncation
\* fallback are handed the text that came in, less at most dangling commas,
\* opening brackets or whitespace
C11_StagesInOrderNothingDiscarded ==
  ( /\ phase = "repair"
    /\ parsed # Pending
    /\ PlainValue(doc)
    /\ Len(text) <= Len(Serialize(doc))
    /\ text = SubSeq(Serialize(doc), 1, Len(text)) ) =>
    /\ parsed.stage \in {"balancer", "truncation", "failed"} =>
         ~JsonLoads(Clean(text)).ok
    /\ parsed.stage \in {"truncation", "failed"} =>
         ~JsonLoads(Repaired(Clean(text))).ok
    /\ parsed.stage # "strict" =>
         /\ Clean(text) = SubSeq(text, 1, Len(Clean(text)))
         /\ \A n \in 1..Len(Discarded) : Discarded[n] \in {",", "[", "{"} \cup PyWs

\* every (candidate, closer) pair of the truncation fallback fails to parse
NoAttemptParses(clean) ==
  \A k \in 1..Len(Candidates(clean)) : \A c \in 1..Len(Closers) :
    ~JsonLoads(Candidates(clean)[k] \o Closers[c]).ok

\* C12: _safe_json_parse raises its ValueError exactly when the strict
\* parse, the balancer's text and every (candidate, closer) pair fail to
\* parse, and the length the error reports is that of the cleaned text
C12_FailsWhenEveryStageFails ==
  parsed # Pending =>
    /\ ~parsed.ok <=>
         /\ ~JsonLoads(Clean(text)).ok
         /\ ~JsonLoads(Repaired(Clean(text))).ok
         /\ NoAttemptParses(Clean(text))
    /\ ~parsed.ok => (parsed.stage = "failed" /\ parsed.len = Len(Clean(text)))

\* a failure after the fallback tried its pairs, on a text the cleaning
\* shortened
C12_Witness ==
  /\ parsed # Pending
  /\ ~parsed.ok
  /\ Candidates(Clean(text)) # << >>
  /\ parsed.len = Len(Clean(text))
  /\ parsed.len < Len(text)

(***************************************************************************)
(* Claims about the parse step of extract_invoice_data (checked under Spec) *)
(***************************************************************************)

\* both requests of the extraction have returned a response
BothResponsesIn == phase \in {"returned", "raised"} /\ text # NoText

\* C13: when _safe_json_parse fails on the metadata response or on the
\* line-items response, the extraction raises that ValueError (with the
\* length of the text that failed) and returns no record
C13_ParseFailureIsFatal ==
  BothResponsesIn =>
    LET m == SafeJsonParse(TextOr(metadata_response, Default.metadata_text))
        l == SafeJsonParse(TextOr(text, Default.line_items_text))
    IN /\ (~m.ok \/ ~l.ok) =>
            /\ phase = "raised"
            /\ outcome.kind = "raised"
            /\ outcome.exc = "ValueError"
            /\ outcome.val = JNull
            /\ outcome.msg = NatText(IF ~m.ok THEN m.len ELSE l.len)
       /\ outcome.kind = "returned" => (m.ok /\ l.ok)

\* the metadata response was a good header and the line-items response was
\* prose no stage recovers: nothing is returned
C13_Witness ==
  /\ BothResponsesIn
  /\ metadata_response = Resp.header
  /\ text = Resp.prose
  /\ outcome = Raised("ValueError", <<"1">>)

\* C14: an empty response text is not a parse failure: empty metadata stands
\* for the empty object and empty line items for the empty array, and with
\* both empty the record returned has every numeric header field 0 and no
\* line items
C14_EmptyResponseDefaults ==
  BothResponsesIn =>
    /\ (metadata_response = Resp.empty /\ text = Resp.empty) =>
         /\ outcome.kind = "returned"
         /\ \A n \in 1..Len(numeric_fields) :
              /\ outcome.val.v[numeric_fields[n]].t = "num"
              /\ outcome.val.v[numeric_fields[n]].v[1] = 0
         /\ outcome.val.v[K.lineItems] = JArr(<< >>)
    /\ (metadata_response = Resp.empty /\ text = Resp.matrix) =>
         /\ outcome.kind = "returned"
         /\ Len(outcome.val.v[K.lineItems].v) = 1
         /\ outcome.val.v[K.grandTotal].v[1] = 0
    /\ (metadata_response = Resp.header /\ text = Resp.empty) =>
         /\ outcome.kind = "returned"
         /\ outcome.val.v[K.lineItems] = JArr(<< >>)
    /\ (Resp.empty \in {metadata_response, text} /\ outcome.exc = "ValueError") =>
         \E t \in {metadata_response, text} :
           t # Resp.empty /\ ~SafeJsonParse(t).ok

\* both responses came back empty and a record was returned
C14_Witness ==
  /\ BothResponsesIn
  /\ metadata_response = Resp.empty
  /\ text = Resp.empty
  /\ outcome.kind = "returned"
  /\ outcome.val.v[K.lineItems] = JArr(<< >>)

(***************************************************************************)
(* Claims about the merge (checked under SpecMerge)                        *)
(***************************************************************************)

NumericFieldSet == {numeric_fields[n] : n \in 1..Len(numeric_fields)}

\* C15: in the dict _post_process_invoice_data returns, and in the record
\* built from it, each of the seven numeric header fields is present and is
\* a float, 0.0 where the metadata had no value or null for it; every other
\* key of the metadata but lineItems is there with the value it came with
C15_NumericHeadersAreNumbers ==
  /\ merge.final_result.ok =>
       LET f == merge.final_result.val.v
           m == merge.metadata.v
       IN /\ \A k \in NumericFieldSet :
               /\ k \in DOMAIN f
               /\ \/ f[k].t = "num" /\ f[k].v[3] = "float"
                  \/ f[k].t = "special"
               /\ (k \notin DOMAIN m \/ m[k].t = "null") => f[k] = PyZero
          /\ DOMAIN f = DOMAIN m \cup NumericFieldSet \cup {K.lineItems}
          /\ \A k \in DOMAIN m \ (NumericFieldSet \cup {K.lineItems}) : f[k] = m[k]
  /\ phase = "returned" =>
       /\ \A k \in NumericFieldSet : outcome.val.v[k].t \in {"num", "special"}
       /\ outcome.val.v[K.invoiceNumber] =
            (IF K.invoiceNumber \in DOMAIN merge.metadata.v
             THEN merge.metadata.v[K.invoiceNumber] ELSE JNull)

\* a header whose grandTotal is null and whose invoiceNumber is set came out
\* as a record with grandTotal 0 and the same invoiceNumber
C15_Witness ==
  /\ phase = "returned"
  /\ K.grandTotal \in DOMAIN merge.metadata.v
  /\ merge.metadata.v[K.grandTotal] = JNull
  /\ K.totalPackages \notin DOMAIN merge.metadata.v
  /\ merge.final_result.val.v[K.grandTotal] = PyZero
  /\ outcome.val.v[K.grandTotal] = PyZero
  /\ outcome.val.v[K.totalPackages] = JNum(0, 0, "int")
  /\ outcome.val.v[K.invoiceNumber] = JStr(<<"X">>)

\* the line-items value is an array of arrays, an array of objects
IsMatrix(v) == v.t = "arr" /\ v.v # << >> /\ \A n \in 1..Len(v.v) : v.v[n].t = "arr"

IsKeyedArray(v) == v.t = "arr" /\ v.v # << >> /\ \A n \in 1..Len(v.v) : v.v[n].t = "obj"

\* C16: whatever the shape of the line-items value, the merged dict has a
\* lineItems that is a sequence
C16_LineItemsAlwaysSequence ==
  merge.final_result.ok =>
    /\ K.lineItems \in DOMAIN merge.final_result.val.v
    /\ merge.final_result.val.v[K.lineItems].t = "arr"

\* the nine semantic fields of a line item
SemanticFields ==
  {K.description, K.partNumber, K.quantity, K.unitMeasure, K.unitPrice, K.total,
   K.netWeight, K.manufacturerRef, K.ncm}

\* C17: of a matrix or an array of keyed objects the merged dict holds one
\* item per input row, each with the nine semantic fields
C17_EveryRowComplete ==
  ( /\ merge.final_result.ok
    /\ IsMatrix(merge.raw_items) \/ IsKeyedArray(merge.raw_items) ) =>
    LET items == merge.final_result.val.v[K.lineItems].v
    IN /\ Len(items) = Len(merge.raw_items.v)
       /\ \A n \in 1..Len(items) : SemanticFields \subseteq DOMAIN items[n].v

\* C18: _parse_line_items by shape: a matrix is mapped to one dict per row,
\* an array of keyed objects is returned as it is, an object with a
\* lineItems key gives that key's value, and every other value gives the
\* empty list; none of the other shapes raises
C18_DispatchOnShape ==
  phase # "merge" =>
    LET raw == merge.raw_items
        got == merge.line_items_obj
    IN /\ IsKeyedArray(raw) => got = Value(raw)
       /\ (raw.t = "obj" /\ K.lineItems \in DOMAIN raw.v) =>
            got = Value(raw.v[K.lineItems])
       /\ IsMatrix(raw) =>
            (got.ok => /\ got.val.t = "arr"
                       /\ \A n \in 1..Len(got.val.v) : got.val.v[n].t = "obj")
       /\ ( /\ ~IsMatrix(raw)
            /\ ~IsKeyedArray(raw)
            /\ ~(raw.t = "obj" /\ K.lineItems \in DOMAIN raw.v) ) =>
            got = Value(JArr(<< >>))

\* x is y rounded to d decimals, for numbers given as <<mantissa, exponent>>:
\* x has no more than d decimals and 2 * |x - y| <= 10^(-d)
Within(x, y, d) ==
  LET s == PyMax(0 - x[2], PyMax(0 - y[2], d))
      X == x[1] * Pow(10, x[2] + s)
      Y == y[1] * Pow(10, y[2] + s)
  IN 2 * Abs(X - Y) <= Pow(10, s - d) /\ x[2] >= 0 - d

\* u is n / q rounded to six decimals: u * q is within q * 10^-6 / 2 of n
IsUnitWeight(u, n, q) ==
  LET s == PyMax(0 - (u[2] + q[2]), PyMax(0 - n[2], 6 - q[2]))
      UQ == u[1] * q[1] * Pow(10, u[2] + q[2] + s)
      N == n[1] * Pow(10, n[2] + s)
      H == q[1] * Pow(10, q[2] - 6 + s)
  IN 2 * Abs(UQ - N) <= H /\ u[2] >= -6

\* the weights of the item out, which the loop made of the item in
WeightsDerived(in, out) ==
  LET q == FloatField(in.v, K.quantity).val
      n == FloatField(in.v, K.netWeight).val
      u == FloatField(in.v, K.unitNetWeight).val
      net == out.v[K.netWeight]
      unit == out.v[K.unitNetWeight]
  IN /\ out.v[K.quantity] = q
     /\ IF Positive(n) /\ Positive(q)
          THEN net = n /\ IsUnitWeight(unit.v, n.v, q.v)
        ELSE IF Positive(u) /\ Positive(q)
          THEN unit = u /\ Within(net.v, <<u.v[1] * q.v[1], u.v[2] + q.v[2]>>, 4)
        ELSE net = n /\ unit = u

\* C19: every item of the merged dict, whether it came from a positional row
\* or from a keyed object, has its weights derived from its coerced
\* quantity, netWeight and unitNetWeight: the unit weight from the net
\* weight when that and the quantity are positive, else the net weight from
\* the unit weight when that and the quantity are positive, else both as
\* they were coerced
C19_WeightDerivation ==
  (merge.final_result.ok /\ merge.line_items_obj.val.t = "arr") =>
    LET ins == merge.line_items_obj.val.v
        outs == merge.final_result.val.v[K.lineItems].v
    IN /\ Len(outs) = Len(ins)
       /\ \A i \in 1..Len(ins) : WeightsDerived(ins[i], outs[i])

\* a keyed object with net weight 2, quantity 3 and a unit weight of its own
\* came through the loop with unit weight 0.666667 and net weight 2.0
C19_Witness ==
  /\ merge.final_result.ok
  /\ merge.line_items_obj.val.t = "arr"
  /\ Len(merge.line_items_obj.val.v) = 1
  /\ LET in == merge.line_items_obj.val.v[1]
         out == merge.final_result.val.v[K.lineItems].v[1]
     IN    /\ IsKeyedArray(merge.raw_items)
           /\ K.unitNetWeight \in DOMAIN in.v
           /\ in.v[K.unitNetWeight] = JNum(25, -2, "float")
           /\ K.netWeight \in DOMAIN in.v
           /\ in.v[K.netWeight] = JNum(2, 0, "int")
           /\ out.v[K.quantity] = JNum(3, 0, "float")
           /\ out.v[K.unitNetWeight] = JNum(666667, -6, "float")
           /\ out.v[K.netWeight] = JNum(2, 0, "float")

\* C20: with a metadata object and a matrix or an array of keyed objects,
\* whatever the type of the values where numbers are expected, neither
\* _parse_line_items nor _post_process_invoice_data raises: the rows are
\* mapped and the merged dict is made
C20_CoercionNeverAborts ==
  ( /\ merge.metadata.t = "obj"
    /\ IsMatrix(merge.raw_items) \/ IsKeyedArray(merge.raw_items) ) =>
    /\ phase # "merge" => merge.line_items_obj.ok
    /\ phase \notin {"merge", "rows"} => merge.final_result.ok

(***************************************************************************)
(* Claims about the order of requests and parse (checked under Spec)       *)
(***************************************************************************)

\* the events of the extraction's log that satisfy P
Logged(P(_)) == {i \in 1..Len(elog) : P(elog[i])}

\* C25: neither response is parsed before both requests have completed.
\* Whatever the metadata response holds, parsable or not, nothing is parsed
\* or raised while the pacing sleep and the line-items request (and its
\* retries) go on, and the sleep can always end; an extraction that ended
\* after the metadata request completed went through the pacing sleep and the
\* line-items request; an extraction whose metadata request failed ended with
\* that error, without pacing sleep, line-items request or parse
C25_ParseAfterBothRequests ==
  LET MetadataDone == Logged(LAMBDA e : e = Ev("done", "Metadata", 0)) # {}
      LineItemsDone == Logged(LAMBDA e : e = Ev("done", "LineItems", 0)) # {}
      Paced == Logged(LAMBDA e : e = Ev("pace", "sleep", PacingSeconds)) # {}
      LineItemsEvents == Logged(LAMBDA e : e[2] = "LineItems")
      NothingParsed == text = NoText /\ outcome.exc # "ValueError"
  IN /\ phase \in {"pacing", "line_items"} =>
          /\ MetadataDone /\ Paced
          /\ outcome = NoOutcome
          /\ NothingParsed
          /\ phase = "pacing" => ENABLED PacingEnds
          /\ phase = "line_items" => LineItemsEvents # {}
     /\ ~NothingParsed => (MetadataDone /\ LineItemsDone)
     /\ phase \in {"returned", "raised"} =>
          IF MetadataDone
          THEN /\ Paced
               /\ Ev("issue", "LineItems", 0) \in {elog[i] : i \in LineItemsEvents}
               /\ LineItemsDone \/ (NothingParsed /\ outcome.exc = "Exception")
               /\ LineItemsDone =>
                    outcome = ExtractResult(metadata_response, text)
          ELSE /\ ~Paced
               /\ LineItemsEvents = {}
               /\ NothingParsed
               /\ phase = "raised"
               /\ outcome.kind = "raised"
               /\ outcome.exc = "Exception"

\* the metadata response was prose no stage recovers; the line-items request
\* was made all the same, failed as often as it may be retried, and completed
\* on its last attempt; only then the parse failure of the metadata ended the
\* extraction
C25_Witness ==
  /\ phase = "raised"
  /\ metadata_response = Resp.prose
  /\ text = Resp.matrix
  /\ outcome = Raised("ValueError", <<"1">>)
  /\ Cardinality(Logged(LAMBDA e : e = Ev("failed", "LineItems", 0))) = max_retries
  /\ Logged(LAMBDA e : e = Ev("pace", "sleep", PacingSeconds)) # {}

(***************************************************************************)
(* Claims about termination (checked under FairSpec)                       *)
(***************************************************************************)

\* the number of times the request was sent upstream
Issued(which) ==
  Cardinality({n \in 1..Len(elog) : elog[n] = Ev("issue", which, 0)})

Terminal == phase \in {"returned", "raised"}

\* an extraction that was begun ends; it ends once, with a record or with an
\* error, and nothing happens after that
EndsOnce ==
  /\ (phase # "idle") ~> Terminal
  /\ [](Terminal <=> outcome # NoOutcome)
  /\ [](Terminal => (phase = "returned" <=> outcome.kind = "returned"))
  /\ [](Terminal => inflight = {})
  /\ [][Terminal => UNCHANGED vars]_vars

\* C21 as the specification states it: the extraction ends once and each of
\* its two requests is sent at most maxAttempts (max_retries) times
C21_AtMostMaxAttemptsPerRequest ==
  /\ EndsOnce
  /\ [](Issued("Metadata") <= max_retries /\ Issued("LineItems") <= max_retries)

\* C21: when every upstream call and every sleep comes back, an extraction
\* that was begun ends exactly once, with a record returned or an error
\* raised, and until then each of its two requests is sent at most
\* max_retries + 1 times
C21_TerminatesWithBoundedCalls ==
  /\ EndsOnce
  /\ [](/\ Issued("Metadata") <= max_retries + 1
        /\ Issued("LineItems") <= max_retries + 1
        /\ Len(elog) <= 4 * (max_retries + 1) + 1)

\* the line-items request was given up after max_retries + 1 calls, which the
\* metadata request had needed as well
C21_Witness ==
  /\ phase = "raised"
  /\ outcome.exc = "Exception"
  /\ Issued("Metadata") = max_retries + 1
  /\ Issued("LineItems") = max_retries + 1

(***************************************************************************)
(* Claims about NcmService (checked under SpecNcm)                         *)
(***************************************************************************)

\* C22: self.ncm_map is assigned at most once; once is_ready is set no step
\* assigns or changes it, and search, get_description and get_hierarchy
\* never change it
C22_MapPopulatedOnce ==
  /\ [](ncm.writes <= 1)
  /\ [][ /\ ncm.is_ready => /\ ncm'.ncm_map = ncm.ncm_map
                            /\ ncm'.writes = ncm.writes
         /\ ncm'.calls = ncm.calls => ncm'.ncm_map = ncm.ncm_map ]_vars

(***************************************************************************)
(* Claims about the stages of _safe_json_parse (checked under SpecRepair)  *)
(***************************************************************************)

\* the scan the specification describes: a quote toggles string mode unless
\* it is escaped, a backslash escapes the next character inside a string
\* literal and is no special character outside one, an opening bracket
\* outside a string pushes its closer, a closer outside a string pops the
\* stack when it is the top
ReferenceScan(clean) ==
  LET Step(st, char) ==
        IF st.in_string THEN
          IF st.escaped THEN [st EXCEPT !.escaped = FALSE]
          ELSE IF char = "\\" THEN [st EXCEPT !.escaped = TRUE]
          ELSE IF char = "\"" THEN [st EXCEPT !.in_string = FALSE]
          ELSE st
        ELSE IF char = "\"" THEN [st EXCEPT !.in_string = TRUE]
        ELSE IF char = "{" THEN [st EXCEPT !.stack = Append(st.stack, "}")]
        ELSE IF char = "[" THEN [st EXCEPT !.stack = Append(st.stack, "]")]
        ELSE IF /\ char \in {"}", "]"}
                /\ st.stack # << >>
                /\ st.stack[Len(st.stack)] = char
          THEN [st EXCEPT !.stack = SubSeq(st.stack, 1, Len(st.stack) - 1)]
        ELSE st
      RECURSIVE Scan(_)
      Scan(n) ==
        IF n = 0 THEN [stack |-> << >>, in_string |-> FALSE, escaped |-> FALSE]
        ELSE Step(Scan(n - 1), clean[n])
  IN Scan(Len(clean))

\* C23: whenever the token balancer ran, the closer stack and the string
\* mode its scan ended with are those of the reference scan of the cleaned
\* text
C23_BalancerMatchesReferenceScan ==
  parsed.stage \in {"balancer", "truncation", "failed"} =>
    /\ BalancerScan(Clean(text), Len(Clean(text))).stack
         = ReferenceScan(Clean(text)).stack
    /\ BalancerScan(Clean(text), Len(Clean(text))).in_string
         = ReferenceScan(Clean(text)).in_string

\* the cut points of the cleaned text: the positions of a '}' or ']' with
\* fewer than five such positions after them
CutPoints(clean) ==
  {i \in 1..Len(clean) :
     /\ clean[i] \in {"}", "]"}
     /\ Cardinality({j \in (i + 1)..Len(clean) : clean[j] \in {"}", "]"}}) < 5}

\* the closer suffixes in the order the specification lists them
CloserSuffixes ==
  << << >>, <<"}">>, <<"]">>, <<"]", "}">>, <<"}", "}">>, <<"]", "}", "}">> >>

\* the strict parse of the text cut after position i, with suffix c appended
Attempt(clean, i, c) == JsonLoads(SubSeq(clean, 1, i) \o CloserSuffixes[c])

\* C24: when the truncation fallback ran, what it returned is the value of
\* a pair (cut point, closer suffix) that parses, the cut point being one of
\* the five '}' or ']' nearest the end, and no pair before it in the order
\* (cut points from the end backwards, suffixes as listed) parses; it fails
\* only when no pair of these cut points parses
C24_FirstParsingPairWins ==
  /\ parsed.stage = "truncation" =>
       \E i \in CutPoints(Clean(text)) : \E c \in 1..Len(CloserSuffixes) :
         /\ Attempt(Clean(text), i, c).ok
         /\ parsed.val = Attempt(Clean(text), i, c).val
         /\ \A j \in CutPoints(Clean(text)) : \A d \in 1..Len(CloserSuffixes) :
              (j > i \/ (j = i /\ d < c)) => ~Attempt(Clean(text), j, d).ok
  /\ parsed.stage = "failed" =>
       \A i \in CutPoints(Clean(text)) : \A c \in 1..Len(CloserSuffixes) :
         ~Attempt(Clean(text), i, c).ok
  /\ parsed.stage \in {"truncation", "failed"} =>
       Cardinality(CutPoints(Clean(text))) <= 5

\* the matrix [[1]] followed by a stray ']' was returned from the second cut
\* point, after the six suffixes had failed on the first
C24_Witness ==
  /\ parsed.stage = "truncation"
  /\ text = <<"[", "[", "1", "]", "]", "]">>
  /\ parsed.val = JArr(<<JArr(<<JNum(1, 0, "int")>>)>>)
  /\ \A c \in 1..Len(CloserSuffixes) : ~Attempt(Clean(text), Len(text), c).ok
  /\ Attempt(Clean(text), Len(text) - 1, 1).ok

====
